---- MODULE Spec2Model ----
(***************************************************************************)
(* A model of autotagical's rule-evaluation engine: the filter engine      *)
(* (filtering.py), the movement-schema resolver (moving.py) and the naming *)
(* engine with its iteration (deduplication) table (naming.py).            *)
(*                                                                         *)
(* A string is a sequence of tokens.  An operator of the schema language   *)
(* ("/&|", "/ITER|", ...) is one token; every other token stands for a     *)
(* piece of text without "/".                                              *)
(***************************************************************************)
EXTENDS Integers, Sequences, FiniteSets, TLC

VARIABLES
    cat_data,           \* AutotagicalCategories.__cat_data
    movement_schema,    \* AutotagicalSchema.movement_schemas
    renaming_schemas,   \* AutotagicalNamer.__renaming_schemas
    unnamed_patterns,   \* AutotagicalNamer.__unnamed_patterns
    files,              \* the AutotagicalFile objects of the file handler
    produced_names,     \* AutotagicalNamer.__produced_names
    pc,                 \* position of the run
    batch,              \* determine_names: file_list of the last call (indices into files)
    return_list,        \* determine_names: the list the last call returned
    flags,              \* determine_names: the flags of the last call
    raised,             \* exception that ended the last call, or "none"
    calls,              \* number of determine_names calls started
    tag_groups,         \* the AutotagicalGroups object
    inherit_stack,      \* the active calls of AutotagicalGroups.__inherit
    entered,            \* number of __inherit calls made for each child group
    settings,           \* the AutotagicalSettings object
    filesystem,         \* the files and directories that exist: path -> kind
    mover               \* move_files: position in move_list and what was done

vars == <<cat_data, movement_schema, renaming_schemas, unnamed_patterns, files,
          produced_names, pc, batch, return_list, flags, raised, calls,
          tag_groups, inherit_stack, entered, settings, filesystem, mover>>

RECURSIVE split_from(_, _, _)
RECURSIVE check_conditions(_, _, _, _)
RECURSIVE check_filters_from(_, _, _, _)
RECURSIVE process_filter_level(_, _, _)
RECURSIVE subfilters_loop(_, _, _, _, _, _)
RECURSIVE schema_loop(_, _, _, _, _)
RECURSIVE replace(_, _, _)
RECURSIVE str(_)
RECURSIVE iter_sub(_, _, _)
RECURSIVE destination_loop(_, _, _, _)
RECURSIVE names_loop(_, _, _, _, _)
RECURSIVE tag_loop(_, _, _, _)
RECURSIVE normpath(_)
RECURSIVE check_output_location(_, _, _, _)
RECURSIVE inherit_in_order(_, _, _, _)
RECURSIVE resolve_in_order(_, _)
RECURSIVE visit_in_order(_, _, _, _)
RECURSIVE folders_loop(_, _, _, _, _)
RECURSIVE Reach(_)
RECURSIVE Forests(_)
RECURSIVE SortedSeq(_)
RECURSIVE NodesOf(_)
RECURSIVE span_positions(_,_)

(***************************************************************************)
(* Bounds of the model.                                                    *)
(***************************************************************************)
\* Largest number of nodes (all levels together) of a movement schema.
MaxNodes == 4
\* Largest number of file records of a run.
MaxFiles == 2
\* Largest number of determine_names calls of a run.
MaxCalls == 2

(***************************************************************************)
(* Text helpers.                                                           *)
(***************************************************************************)
Range(s) == {s[i] : i \in 1..Len(s)}

\* Tokens that contain the character "/".
OperatorTokens == {"/&|", "/!|", "/*|", "/C|", "/", "/FILE|", "/TAGS|", "/EXT|",
                   "/ITER|", "/EITER|", "/#|"}

HasSlash(s) == \E i \in 1..Len(s) : s[i] \in OperatorTokens

\* os.path.join(a, b) on POSIX.
path_join(a, b) ==
    IF b # <<>> /\ b[1] = "/" THEN b
    ELSE IF a = <<>> THEN b
    ELSE IF a[Len(a)] = "/" THEN a \o b
    ELSE a \o <<"/">> \o b

(***************************************************************************)
(* filtering.py                                                            *)
(***************************************************************************)
\* Result of an evaluation that may raise FilterError.
Value(b) == [raised |-> FALSE, value |-> b]
FilterError == [raised |-> TRUE, value |-> FALSE]

\* str.split('/&|'): the pieces of s from position i on, cur being the piece
\* read so far.
split_from(s, i, cur) ==
    IF i > Len(s) THEN <<cur>>
    ELSE IF s[i] = "/&|" THEN <<cur>> \o split_from(s, i + 1, <<>>)
    ELSE split_from(s, i + 1, Append(cur, s[i]))

split_filter_to_conditions(input_filter) ==
    SelectSeq(split_from(input_filter, 1, <<>>), LAMBDA c : c # <<>>)

get_category_tags(categories, category) ==
    IF category \in DOMAIN categories THEN categories[category] ELSE {}

\* A variant in which the category branch forgets the negation.
check_condition_category_unflipped(tag_array, condition, categories) ==
    LET negated == condition # <<>> /\ condition[1] = "/!|"
        body == IF negated THEN Tail(condition) ELSE condition
        match_found == ~negated
    IN  IF body = <<"/*|">> THEN Value(match_found)
        ELSE IF body # <<>> /\ ~HasSlash(body)
            THEN IF \E i \in 1..Len(tag_array) : <<tag_array[i]>> = body
                 THEN Value(match_found) ELSE Value(~match_found)
        ELSE IF Len(body) >= 2 /\ body[1] = "/C|" /\ ~HasSlash(Tail(body))
            THEN Value(\E i \in 1..Len(tag_array) :
                           tag_array[i] \in get_category_tags(categories, Tail(body)))
        ELSE FilterError

\* A variant in which the wildcard is true whether negated or not.
check_condition_wildcard_always(tag_array, condition, categories) ==
    LET negated == condition # <<>> /\ condition[1] = "/!|"
        body == IF negated THEN Tail(condition) ELSE condition
        match_found == ~negated
    IN  IF body = <<"/*|">> THEN Value(TRUE)
        ELSE IF body # <<>> /\ ~HasSlash(body)
            THEN IF \E i \in 1..Len(tag_array) : <<tag_array[i]>> = body
                 THEN Value(match_found) ELSE Value(~match_found)
        ELSE IF Len(body) >= 2 /\ body[1] = "/C|" /\ ~HasSlash(Tail(body))
            THEN IF \E i \in 1..Len(tag_array) :
                        tag_array[i] \in get_category_tags(categories, Tail(body))
                 THEN Value(match_found) ELSE Value(~match_found)
        ELSE FilterError

\* CONDITION_REGEX: ^(/!|)?(?:(/*|)|(?:/C|([^/]+))|([^/]+))$
check_condition(tag_array, condition, categories) ==
    LET negated == condition # <<>> /\ condition[1] = "/!|"
        body == IF negated THEN Tail(condition) ELSE condition
        match_found == ~negated
    IN  IF body = <<"/*|">> THEN Value(match_found)
        ELSE IF body # <<>> /\ ~HasSlash(body)
            THEN IF \E i \in 1..Len(tag_array) : <<tag_array[i]>> = body
                 THEN Value(match_found) ELSE Value(~match_found)
        ELSE IF Len(body) >= 2 /\ body[1] = "/C|" /\ ~HasSlash(Tail(body))
            THEN IF \E i \in 1..Len(tag_array) :
                        tag_array[i] \in get_category_tags(categories, Tail(body))
                 THEN Value(match_found) ELSE Value(~match_found)
        ELSE FilterError

\* The loop of check_against_filter from condition i on.
check_conditions(tag_array, conditions, i, categories) ==
    IF i > Len(conditions) THEN Value(TRUE)
    ELSE LET r == check_condition(tag_array, conditions[i], categories)
         IN  IF r.raised THEN FilterError
             ELSE IF ~r.value THEN Value(FALSE)
             ELSE check_conditions(tag_array, conditions, i + 1, categories)

\* A variant in which a filter without conditions is true.
check_against_filter_vacuous(tag_array, single_filter, categories) ==
    check_conditions(tag_array, split_filter_to_conditions(single_filter), 1,
                     categories)

check_against_filter(tag_array, single_filter, categories) ==
    LET conditions == split_filter_to_conditions(single_filter)
    IN  IF conditions = <<>> THEN FilterError
        ELSE check_conditions(tag_array, conditions, 1, categories)

\* A variant of the loop that asks every filter to match.
check_filters_from_all(tag_array, filter_array, i, categories) ==
    IF i > Len(filter_array) THEN Value(TRUE)
    ELSE LET r == check_against_filter(tag_array, filter_array[i], categories)
         IN  IF r.raised THEN FilterError
             ELSE IF ~r.value THEN Value(FALSE)
             ELSE check_filters_from(tag_array, filter_array, i + 1, categories)

\* The loop of check_against_filters from filter i on.
check_filters_from(tag_array, filter_array, i, categories) ==
    IF i > Len(filter_array) THEN Value(FALSE)
    ELSE LET r == check_against_filter(tag_array, filter_array[i], categories)
         IN  IF r.raised THEN FilterError
             ELSE IF r.value THEN Value(TRUE)
             ELSE check_filters_from(tag_array, filter_array, i + 1, categories)

check_against_filters(tag_array, filter_array, categories) ==
    IF filter_array = <<>> THEN FilterError
    ELSE check_filters_from(tag_array, filter_array, 1, categories)

(***************************************************************************)
(* moving.py                                                               *)
(***************************************************************************)
\* Result (full_match, path) of process_filter_level, or a raised FilterError.
Level(full, path) == [raised |-> FALSE, full |-> full, path |-> path]
LevelError == [raised |-> TRUE, full |-> FALSE, path |-> <<>>]

\* A variant of the loop in which a later fully matching child replaces an
\* earlier one.
subfilters_loop_last_full(tag_array, subfolder, subfilters, i, partial_sort, categories) ==
    IF i > Len(subfilters)
    THEN IF partial_sort # <<>>
         THEN Level(FALSE, path_join(subfolder, partial_sort))
         ELSE Level(FALSE, subfolder)
    ELSE LET output == process_filter_level(tag_array, subfilters[i], categories)
         IN  IF output.raised THEN LevelError
             ELSE IF output.full
                       /\ \A j \in (i + 1)..Len(subfilters) :
                              ~process_filter_level(tag_array, subfilters[j],
                                                    categories).full
                 THEN IF output.path # <<>>
                      THEN Level(TRUE, path_join(subfolder, output.path))
                      ELSE Level(TRUE, subfolder)
             ELSE subfilters_loop(tag_array, subfolder, subfilters, i + 1,
                      IF output.path # <<>> /\ partial_sort = <<>> /\ ~output.full
                      THEN output.path ELSE partial_sort, categories)

\* A variant of the loop that reports nothing when no child contributed.
subfilters_loop_unmatched_empty(tag_array, subfolder, subfilters, i, partial_sort, categories) ==
    IF i > Len(subfilters)
    THEN IF partial_sort # <<>>
         THEN Level(FALSE, path_join(subfolder, partial_sort))
         ELSE Level(FALSE, <<>>)
    ELSE LET output == process_filter_level(tag_array, subfilters[i], categories)
         IN  IF output.raised THEN LevelError
             ELSE IF output.full
                 THEN IF output.path # <<>>
                      THEN Level(TRUE, path_join(subfolder, output.path))
                      ELSE Level(TRUE, subfolder)
             ELSE subfilters_loop(tag_array, subfolder, subfilters, i + 1,
                      IF output.path # <<>> /\ partial_sort = <<>>
                      THEN output.path ELSE partial_sort, categories)

\* A variant of the loop that joins the contribution of a fully matching
\* child to the subfolder even when it is empty.
subfilters_loop_always_joined(tag_array, subfolder, subfilters, i, partial_sort, categories) ==
    IF i > Len(subfilters)
    THEN IF partial_sort # <<>>
         THEN Level(FALSE, path_join(subfolder, partial_sort))
         ELSE Level(FALSE, subfolder)
    ELSE LET output == process_filter_level(tag_array, subfilters[i], categories)
         IN  IF output.raised THEN LevelError
             ELSE IF output.full
                 THEN Level(TRUE, path_join(subfolder, output.path))
             ELSE subfilters_loop(tag_array, subfolder, subfilters, i + 1,
                      IF output.path # <<>> /\ partial_sort = <<>>
                      THEN output.path ELSE partial_sort, categories)

\* The loop over filter_level['subfilters'] from child i on, with the
\* partial_sort captured so far (<<>> stands for False).
subfilters_loop(tag_array, subfolder, subfilters, i, partial_sort, categories) ==
    IF i > Len(subfilters)
    THEN IF partial_sort # <<>>
         THEN Level(FALSE, path_join(subfolder, partial_sort))
         ELSE Level(FALSE, subfolder)
    ELSE LET output == process_filter_level(tag_array, subfilters[i], categories)
         IN  IF output.raised THEN LevelError
             ELSE IF output.full
                 THEN IF output.path # <<>>
                      THEN Level(TRUE, path_join(subfolder, output.path))
                      ELSE Level(TRUE, subfolder)
             ELSE subfilters_loop(tag_array, subfolder, subfilters, i + 1,
                      IF output.path # <<>> /\ partial_sort = <<>>
                      THEN output.path ELSE partial_sort, categories)

\* A variant that consults the children of a matching node before it looks
\* at the subfolder name.
process_filter_level_children_first(tag_array, filter_level, categories) ==
    LET m == check_against_filters(tag_array, filter_level.filters, categories)
    IN  IF m.raised THEN LevelError
        ELSE IF m.value
            THEN IF filter_level.subfilters = <<>>
                 THEN Level(TRUE, filter_level.subfolder)
                 ELSE subfilters_loop(tag_array, filter_level.subfolder,
                                      filter_level.subfilters, 1, <<>>, categories)
        ELSE Level(FALSE, <<>>)

\* A variant that strips the iteration spans from the subfolder name of a
\* matching node without children.
process_filter_level_stripped(tag_array, filter_level, categories) ==
    LET m == check_against_filters(tag_array, filter_level.filters, categories)
    IN  IF m.raised THEN LevelError
        ELSE IF m.value
            THEN IF filter_level.subfolder = <<>> THEN Level(TRUE, <<>>)
                 ELSE IF filter_level.subfilters = <<>>
                     THEN Level(TRUE, iter_sub(filter_level.subfolder, 1, FALSE))
                 ELSE subfilters_loop(tag_array, filter_level.subfolder,
                                      filter_level.subfilters, 1, <<>>, categories)
        ELSE Level(FALSE, <<>>)

\* process_filter_level: the (full match, path) a node reports for a tag set.
process_filter_level(tag_array, filter_level, categories) ==
    LET m == check_against_filters(tag_array, filter_level.filters, categories)
    IN  IF m.raised THEN LevelError
        ELSE IF m.value
            THEN IF filter_level.subfolder = <<>> THEN Level(TRUE, <<>>)
                 ELSE IF filter_level.subfilters = <<>>
                     THEN Level(TRUE, filter_level.subfolder)
                 ELSE subfilters_loop(tag_array, filter_level.subfolder,
                                      filter_level.subfilters, 1, <<>>, categories)
        ELSE Level(FALSE, <<>>)

\* Result (move_failed, path) of generate_path, or the exception it raised.
Path(failed, path) == [raised |-> "none", move_failed |-> failed, path |-> path]
PathError(e) == [raised |-> e, move_failed |-> FALSE, path |-> <<>>]

\* A variant of the loop in which a later partial match replaces the first.
schema_loop_last_partial(tag_array, schema, i, partial_sort, categories) ==
    IF i > Len(schema)
    THEN IF partial_sort # <<>> THEN Path(FALSE, partial_sort)
         ELSE Path(TRUE, <<>>)
    ELSE LET output == process_filter_level(tag_array, schema[i], categories)
         IN  IF output.raised THEN PathError("FilterError")
             ELSE IF output.full THEN Path(FALSE, output.path)
             ELSE schema_loop(tag_array, schema, i + 1,
                      IF output.path # <<>>
                      THEN output.path ELSE partial_sort, categories)

\* The loop over the root nodes from node i on.
schema_loop(tag_array, schema, i, partial_sort, categories) ==
    IF i > Len(schema)
    THEN IF partial_sort # <<>> THEN Path(FALSE, partial_sort)
         ELSE Path(TRUE, <<>>)
    ELSE LET output == process_filter_level(tag_array, schema[i], categories)
         IN  IF output.raised THEN PathError("FilterError")
             ELSE IF output.full THEN Path(FALSE, output.path)
             ELSE schema_loop(tag_array, schema, i + 1,
                      IF output.path # <<>> /\ partial_sort = <<>>
                      THEN output.path ELSE partial_sort, categories)

generate_path(tag_array, schema, categories) ==
    IF schema = <<>> THEN PathError("SchemaError")
    ELSE schema_loop(tag_array, schema, 1, <<>>, categories)

(***************************************************************************)
(* naming.py                                                               *)
(***************************************************************************)
\* str.replace(old, new) for a one-token old.
replace(s, old, new) ==
    IF s = <<>> THEN <<>>
    ELSE (IF Head(s) = old THEN new ELSE <<Head(s)>>) \o replace(Tail(s), old, new)

\* str(n) for a natural number n.
Digits == <<"0", "1", "2", "3", "4", "5", "6", "7", "8", "9">>
str(n) ==
    IF n < 10 THEN <<Digits[n + 1]>>
    ELSE str(n \div 10) \o <<Digits[(n % 10) + 1]>>

\* Position of the first "/EITER|" of s after position i, 0 if there is none.
next_eiter(s, i) ==
    IF \E j \in (i + 1)..Len(s) : s[j] = "/EITER|"
    THEN CHOOSE j \in (i + 1)..Len(s) :
            /\ s[j] = "/EITER|"
            /\ \A k \in (i + 1)..(j - 1) : s[k] # "/EITER|"
    ELSE 0

\* iter_regex.sub over s from position i on: every leftmost, shortest span
\* /ITER|.../EITER| is replaced by its inner text (keep) or by nothing.
iter_sub(s, i, keep) ==
    IF i > Len(s) THEN <<>>
    ELSE IF s[i] = "/ITER|" /\ next_eiter(s, i) # 0
        THEN (IF keep THEN SubSeq(s, i + 1, next_eiter(s, i) - 1) ELSE <<>>)
             \o iter_sub(s, next_eiter(s, i) + 1, keep)
    ELSE <<s[i]>> \o iter_sub(s, i + 1, keep)

\* Result of a naming function: the exception raised ("none" if it returned)
\* and the string returned.
Named(v) == [raised |-> "none", value |-> v]
NameError(e) == [raised |-> e, value |-> <<>>]

\* A variant that does not look for the occurrence operator.
strip_iters_unchecked(format_string) == Named(iter_sub(format_string, 1, FALSE))

strip_iters(format_string) ==
    LET stripped == iter_sub(format_string, 1, FALSE)
    IN  IF "/#|" \in Range(stripped) THEN NameError("SchemaError")
        ELSE Named(stripped)

evaluate_iters(format_string, occurrence) ==
    replace(iter_sub(format_string, 1, TRUE), "/#|", str(occurrence))

\* The format strings of the model hold no conditional, tag, group or
\* tag-in-group operator, so the regex substitutions of lines 223-231 leave
\* them as they are.
substitute_operators(format_string, file) ==
    IF format_string = <<>> THEN NameError("SchemaError")
    ELSE LET to_return ==
                 replace(replace(replace(format_string,
                     "/EXT|", file.extension), "/TAGS|", file.tags), "/FILE|", file.name)
         IN  IF HasSlash(to_return) THEN NameError("SystemExit")
             ELSE IF to_return = <<>> THEN NameError("SchemaError")
             ELSE Named(to_return)

\* re.match of a pattern that is a literal text: the text is a prefix of s.
regex_match(pattern, s) ==
    Len(pattern) <= Len(s) /\ SubSeq(s, 1, Len(pattern)) = pattern

check_if_unnamed(file_name) ==
    \E i \in 1..Len(unnamed_patterns) : regex_match(unnamed_patterns[i], file_name)

\* A variant that returns the format string of the last rule that matches.
find_format_string_last(tag_array) ==
    LET r(i) == check_against_filter(tag_array, renaming_schemas[i].filter, cat_data)
        hit(i) == r(i).raised \/ r(i).value
    IN  IF \E i \in 1..Len(renaming_schemas) : hit(i)
        THEN LET i == CHOOSE j \in 1..Len(renaming_schemas) :
                          hit(j) /\ \A k \in (j + 1)..Len(renaming_schemas) : ~hit(k)
             IN  IF r(i).raised THEN NameError("FilterError")
                 ELSE Named(renaming_schemas[i].format_string)
        ELSE Named(<<>>)

\* Result of find_format_string: the format string (<<>> stands for False) or
\* the FilterError raised.
find_format_string(tag_array) ==
    LET r(i) == check_against_filter(tag_array, renaming_schemas[i].filter, cat_data)
        hit(i) == r(i).raised \/ r(i).value
    IN  IF \E i \in 1..Len(renaming_schemas) : hit(i)
        THEN LET i == CHOOSE j \in 1..Len(renaming_schemas) :
                          hit(j) /\ \A k \in 1..(j - 1) : ~hit(k)
             IN  IF r(i).raised THEN NameError("FilterError")
                 ELSE Named(renaming_schemas[i].format_string)
        ELSE Named(<<>>)

(***************************************************************************)
(* groups.py                                                               *)
(***************************************************************************)
\* A variant of pop that leaves the key in the dict.
dict_pop_kept(d, k) == d

\* A dict is a function; d.pop(k) and d[k] = v.
dict_pop(d, k) == [x \in DOMAIN d \ {k} |-> d[x]]
dict_set(d, k, v) == (k :> v) @@ d

\* AutotagicalGroups.__init__: the object before anything is loaded.
AutotagicalGroups ==
    [input_data |-> <<>>, group_data |-> <<>>, inheritance |-> <<>>,
     to_compile |-> <<>>, regex_group_data |-> <<>>,
     loaded_autotagical_format |-> FALSE]

\* re.compile(pattern) succeeds: "(" is the pattern of the model that is not
\* a regular expression.
compiles(pattern) == pattern # <<"(">>

\* pattern.fullmatch(tag) for the patterns of the model: "x." matches the
\* two-character tags that start with x, any other pattern is literal text.
fullmatch(pattern, tag) ==
    IF pattern = <<"x", ".">> THEN tag \in {"x1", "x2"}
    ELSE pattern = <<tag>>

\* Lines 300-303: the entry is a simple tag.  A marker is one token and every
\* other token has at least one character, so an entry is as long as "/G|a"
\* ("/RE|a") exactly when a token follows the marker.
is_simple_tag(entry) ==
    ~(Len(entry) >= 2 /\ entry[1] \in {"/G|", "/RE|"})

\* Lines 293-315: the tags, the parents and the patterns of a group's entries.
own_tags(entries) == {entry \in entries : is_simple_tag(entry)}
own_parents(entries) ==
    {Tail(entry) : entry \in {e \in entries : ~is_simple_tag(e) /\ e[1] = "/G|"}}
own_patterns(entries) ==
    {Tail(entry) : entry \in {e \in entries : ~is_simple_tag(e) /\ e[1] = "/RE|"}}

\* process_groups up to the call of __resolve_inheritance.
process_groups ==
    /\ pc = "groups_loaded"
    /\ IF ~tag_groups.loaded_autotagical_format
       THEN /\ tag_groups' = [tag_groups EXCEPT !.group_data = tag_groups.input_data]
            /\ pc' = "processed"
       ELSE LET input == tag_groups.input_data
                heirs == {g \in DOMAIN input : own_parents(input[g]) # {}}
            IN  /\ tag_groups' = [tag_groups EXCEPT
                       !.group_data = [g \in DOMAIN input |-> own_tags(input[g])],
                       !.to_compile = [g \in DOMAIN input |-> own_patterns(input[g])],
                       !.inheritance = [g \in heirs |-> own_parents(input[g])]]
                /\ pc' = "resolving"
    /\ UNCHANGED <<cat_data, movement_schema, renaming_schemas, unnamed_patterns,
                   settings, filesystem, mover,
                   files, produced_names, batch, return_list, flags, raised, calls,
                   inherit_stack, entered>>

\* A call of __inherit(child, parents): the parents the loop has not visited,
\* the parent whose own call is awaited (<<>> if none) and the two sets to
\* return.
Frame(child, parents) ==
    [child |-> child, todo |-> parents, awaited |-> <<>>,
     tags_to_return |-> {}, patterns_to_return |-> {}]

count_call(counts, child) ==
    dict_set(counts, child, IF child \in DOMAIN counts THEN counts[child] + 1 ELSE 1)

\* Lines 225-231 for the call on top of the stack: the child takes the tags
\* and the patterns of the parent, and the loop goes on.
inherit_from_parent(tg, frame, parent) ==
    [tag_groups |->
         [tg EXCEPT
              !.group_data[frame.child] = @ \cup tg.group_data[parent],
              !.to_compile[frame.child] = @ \cup tg.to_compile[parent]],
     frame |->
         [frame EXCEPT
              !.tags_to_return = @ \cup tg.group_data[parent],
              !.patterns_to_return = @ \cup tg.to_compile[parent],
              !.todo = @ \ {parent},
              !.awaited = <<>>]]

\* Lines 248-251: the loop of __resolve_inheritance pops a group and calls
\* __inherit for it.
resolve_inheritance ==
    /\ pc = "resolving"
    /\ inherit_stack = <<>>
    /\ \E group \in DOMAIN tag_groups.inheritance :
           /\ inherit_stack' = <<Frame(group, tag_groups.inheritance[group])>>
           /\ tag_groups' = [tag_groups EXCEPT
                                 !.inheritance = dict_pop(@, group)]
           /\ entered' = count_call(entered, group)
    /\ UNCHANGED <<cat_data, movement_schema, renaming_schemas, unnamed_patterns,
                   settings, filesystem, mover,
                   files, produced_names, pc, batch, return_list, flags, raised,
                   calls>>

\* Lines 207-231: one iteration of the loop of __inherit over parents, in
\* whatever order the set yields them.
inherit ==
    /\ pc = "resolving"
    /\ inherit_stack # <<>>
    /\ LET top == Len(inherit_stack)
           frame == inherit_stack[top]
       IN  /\ frame.awaited = <<>>
           /\ \E parent \in frame.todo :
                  IF parent \in DOMAIN tag_groups.inheritance
                  THEN /\ inherit_stack' =
                              Append([inherit_stack EXCEPT ![top].awaited = parent],
                                     Frame(parent, tag_groups.inheritance[parent]))
                       /\ tag_groups' = [tag_groups EXCEPT
                                             !.inheritance = dict_pop(@, parent)]
                       /\ entered' = count_call(entered, parent)
                  ELSE IF parent \notin DOMAIN tag_groups.group_data
                  THEN /\ inherit_stack' =
                              [inherit_stack EXCEPT ![top].todo = @ \ {parent}]
                       /\ UNCHANGED <<tag_groups, entered>>
                  ELSE LET out == inherit_from_parent(tag_groups, frame, parent)
                       IN  /\ tag_groups' = out.tag_groups
                           /\ inherit_stack' = [inherit_stack EXCEPT ![top] = out.frame]
                           /\ UNCHANGED entered
    /\ UNCHANGED <<cat_data, movement_schema, renaming_schemas, unnamed_patterns,
                   settings, filesystem, mover,
                   files, produced_names, pc, batch, return_list, flags, raised,
                   calls>>

\* Line 233 and, in the caller, lines 212-231: the call returns its two sets;
\* the caller's child takes them and then inherits from the parent itself.
inherit_return ==
    /\ pc = "resolving"
    /\ inherit_stack # <<>>
    /\ LET top == Len(inherit_stack)
           frame == inherit_stack[top]
       IN  /\ frame.todo = {}
           /\ IF top = 1
              THEN /\ inherit_stack' = <<>>
                   /\ UNCHANGED tag_groups
              ELSE LET caller == inherit_stack[top - 1]
                       taken == [tag_groups EXCEPT
                                     !.group_data[caller.child] =
                                         @ \cup frame.tags_to_return,
                                     !.to_compile[caller.child] =
                                         @ \cup frame.patterns_to_return]
                       out == inherit_from_parent(taken,
                                  [caller EXCEPT
                                       !.tags_to_return = @ \cup frame.tags_to_return,
                                       !.patterns_to_return =
                                           @ \cup frame.patterns_to_return],
                                  caller.awaited)
                   IN  /\ tag_groups' = out.tag_groups
                       /\ inherit_stack' =
                              [SubSeq(inherit_stack, 1, top - 1) EXCEPT
                                   ![top - 1] = out.frame]
    /\ UNCHANGED <<cat_data, movement_schema, renaming_schemas, unnamed_patterns,
                   settings, filesystem, mover,
                   files, produced_names, pc, batch, return_list, flags, raised,
                   calls, entered>>

\* Lines 264-274: the patterns that compile, for the groups that have any
\* pattern.
compile_regexes(to_compile) ==
    [group \in {g \in DOMAIN to_compile : to_compile[g] # {}} |->
         {pattern \in to_compile[group] : compiles(pattern)}]

\* The member of the set that an iteration in the given order yields first.
first_in_order(S, order) ==
    order[CHOOSE i \in 1..Len(order) :
              order[i] \in S /\ \A j \in 1..(i - 1) : order[j] \notin S]

\* Lines 207-231 for one parent of the loop of __inherit(child, ...): the
\* groups and the frame of the call after the iteration.
visit_in_order(tg, child, parent, order) ==
    IF parent \in DOMAIN tg.inheritance
    THEN LET sub == inherit_in_order(
                        [tg EXCEPT !.inheritance = dict_pop(@, parent)],
                        parent, tg.inheritance[parent], order)
         IN  inherit_from_parent(
                 [sub.tag_groups EXCEPT
                      !.group_data[child] = @ \cup sub.tags_to_return,
                      !.to_compile[child] = @ \cup sub.patterns_to_return],
                 [Frame(child, {parent}) EXCEPT
                      !.tags_to_return = sub.tags_to_return,
                      !.patterns_to_return = sub.patterns_to_return],
                 parent)
    ELSE IF parent \notin DOMAIN tg.group_data
    THEN [tag_groups |-> tg, frame |-> Frame(child, {})]
    ELSE inherit_from_parent(tg, Frame(child, {parent}), parent)

\* Lines 205-233 as one call: __inherit(child, parents) when every set and
\* dict yields its members in the given order.  The result holds the
\* groups after the call and the two sets the call returns.
inherit_in_order(tg, child, parents, order) ==
    IF parents = {}
    THEN [tag_groups |-> tg, tags_to_return |-> {}, patterns_to_return |-> {}]
    ELSE LET parent == first_in_order(parents, order)
             visited == visit_in_order(tg, child, parent, order)
             rest == inherit_in_order(visited.tag_groups, child,
                                      parents \ {parent}, order)
         IN  [tag_groups |-> rest.tag_groups,
              tags_to_return |->
                  visited.frame.tags_to_return \cup rest.tags_to_return,
              patterns_to_return |->
                  visited.frame.patterns_to_return \cup rest.patterns_to_return]

\* Lines 248-251 as one call: __resolve_inheritance when popitem and the
\* parent sets follow the given order.
resolve_in_order(tg, order) ==
    IF tg.inheritance = <<>> THEN tg
    ELSE LET group == first_in_order(DOMAIN tg.inheritance, order)
         IN  resolve_in_order(
                 inherit_in_order([tg EXCEPT !.inheritance = dict_pop(@, group)],
                                  group, tg.inheritance[group], order).tag_groups,
                 order)

\* process_groups as one call, for the given order of iteration.
process_groups_in_order(tg, order) ==
    IF ~tg.loaded_autotagical_format
    THEN [tg EXCEPT !.group_data = tg.input_data]
    ELSE LET input == tg.input_data
             heirs == {g \in DOMAIN input : own_parents(input[g]) # {}}
             resolved == resolve_in_order(
                 [tg EXCEPT
                      !.group_data = [g \in DOMAIN input |-> own_tags(input[g])],
                      !.to_compile = [g \in DOMAIN input |-> own_patterns(input[g])],
                      !.inheritance = [g \in heirs |-> own_parents(input[g])]],
                 order)
         IN  [resolved EXCEPT
                  !.regex_group_data = compile_regexes(resolved.to_compile)]

\* Lines 317-318: __resolve_inheritance has returned; __compile_regexes ends
\* process_groups.
process_groups_return ==
    /\ pc = "resolving"
    /\ inherit_stack = <<>>
    /\ tag_groups.inheritance = <<>>
    /\ tag_groups' = [tag_groups EXCEPT
                          !.regex_group_data = compile_regexes(tag_groups.to_compile)]
    /\ pc' = "processed"
    /\ UNCHANGED <<cat_data, movement_schema, renaming_schemas, unnamed_patterns,
                   settings, filesystem, mover,
                   files, produced_names, batch, return_list, flags, raised, calls,
                   inherit_stack, entered>>

\* A variant of the loop that looks for a literal member among all the tags
\* before it tries the patterns.
tag_loop_literals_first(tag_array, i, group, has_regexes) ==
    LET literal == {j \in i..Len(tag_array) :
                       <<tag_array[j]>> \in tag_groups.group_data[group]}
        matched == {j \in i..Len(tag_array) :
                       has_regexes
                       /\ \E pattern \in tag_groups.regex_group_data[group] :
                              fullmatch(pattern, tag_array[j])}
    IN  IF literal # {} THEN tag_array[CHOOSE j \in literal : \A k \in literal : j <= k]
        ELSE IF matched # {}
            THEN tag_array[CHOOSE j \in matched : \A k \in matched : j <= k]
        ELSE ""

\* Lines 344-352: the loop of tag_in_group from tag i on.
tag_loop(tag_array, i, group, has_regexes) ==
    IF i > Len(tag_array) THEN ""
    ELSE IF <<tag_array[i]>> \in tag_groups.group_data[group] THEN tag_array[i]
    ELSE IF has_regexes
            /\ \E pattern \in tag_groups.regex_group_data[group] :
                   fullmatch(pattern, tag_array[i])
        THEN tag_array[i]
    ELSE tag_loop(tag_array, i + 1, group, has_regexes)

\* tag_in_group: the first matching tag, "" if there is none or the group is
\* not loaded.
tag_in_group(tag_array, group) ==
    IF group \notin DOMAIN tag_groups.group_data THEN ""
    ELSE tag_loop(tag_array, 1, group, group \in DOMAIN tag_groups.regex_group_data)

(***************************************************************************)
(* The file records (file_handler.py).                                     *)
(***************************************************************************)
AutotagicalFile(name, tags, extension, tag_array, raw_name, original_path) ==
    [dest_folder |-> <<>>, extension |-> extension, move_failed |-> FALSE,
     name |-> name, original_path |-> original_path, output_name |-> raw_name,
     raw_name |-> raw_name, rename_failed |-> FALSE, tags |-> tags,
     tag_array |-> tag_array]

\* The record that load_file builds for the file called name + [tags] + .e
\* in input folder number i.
load_file(i, name, tag_array) ==
    LET tags == <<"[">> \o tag_array \o <<"]">>
        raw_name == name \o tags \o <<".e">>
    IN  AutotagicalFile(name, tags, <<".e">>, tag_array, raw_name,
                        <<"d">> \o str(i) \o <<"/">> \o raw_name)

(***************************************************************************)
(* The inputs of the model.                                                *)
(***************************************************************************)
\* The ordered forests of exactly n movement-schema nodes.
NodeFilters == {<< <<"t1">> >>, << <<"/*|">> >>}
Subfolders == {<<>>, <<"A">>, <<"/FILE|", "/ITER|", "/#|", "/EITER|">>}
Forests(n) ==
    IF n = 0 THEN {<<>>}
    ELSE UNION {
        { <<[filters |-> f, subfolder |-> sf, subfilters |-> kids]>> \o rest :
              f \in NodeFilters, sf \in Subfolders,
              kids \in Forests(k - 1), rest \in Forests(n - k) } : k \in 1..n }

\* movement_schema is a forest of exactly n nodes.
IsForest(schema, n) ==
    IF n = 0 THEN schema = <<>>
    ELSE \E k \in 1..n : \E f \in NodeFilters, sf \in Subfolders :
            \E kids \in Forests(k - 1), rest \in Forests(n - k) :
                schema = <<[filters |-> f, subfolder |-> sf, subfilters |-> kids]>>
                            \o rest
\* The tag set of the placed file: it matches the wildcard node filter and
\* not the filter on tag t1.
PathTagArrays == {<<"t2">>}

\* Renaming rules.
Rule(filter, format_string) == [filter |-> filter, format_string |-> format_string]
FmtCounter == <<"/FILE|", "/ITER|", "/#|", "/EITER|", "/TAGS|", "/EXT|">>
FmtFixed == <<"n", "/ITER|", "-", "/#|", "/EITER|">>
FmtFixedPlain == <<"n", "/ITER|", "/#|", "/EITER|">>
FmtNoPlaceholder == <<"/FILE|", "/ITER|", "x", "/EITER|">>
FmtNoIter == <<"/FILE|", "/TAGS|", "/EXT|">>
FmtStray == <<"/FILE|", "/#|">>
FmtNested == <<"n", "/ITER|", "/ITER|", "/#|", "/EITER|">>
\* The movement schemas of the naming runs: every file goes to folder A, or
\* only the files with tag t1 do and the others match nothing.
AllToA ==
    << [filters |-> << <<"/*|">> >>, subfolder |-> <<"A">>, subfilters |-> <<>>] >>
TaggedToA ==
    << [filters |-> << <<"t1">> >>, subfolder |-> <<"A">>, subfilters |-> <<>>] >>

\* The configurations of the naming runs: a movement schema and the list of
\* renaming rules.
Configuration(schema, rules) ==
    [movement_schema |-> schema, renaming_schemas |-> rules]
Configurations ==
    { Configuration(AllToA, <<Rule(<<"/*|">>, FmtCounter)>>),
      Configuration(TaggedToA, <<Rule(<<"t1">>, FmtFixed)>>),
      Configuration(AllToA, <<Rule(<<"/!|", "t1">>, FmtFixedPlain),
                              Rule(<<"/*|">>, FmtFixed)>>),
      Configuration(AllToA, <<Rule(<<"t1">>, FmtNoPlaceholder),
                              Rule(<<"/*|">>, FmtNoIter)>>),
      Configuration(TaggedToA, <<Rule(<<"t2">>, FmtStray),
                                 Rule(<<"t1">>, FmtNested)>>),
      Configuration(TaggedToA, <<Rule(<<"t2">>, FmtCounter)>>) }

\* The files of a naming run: a[t1].e, which the pattern of unnamed files
\* matches, and b[t2].e, which it does not match.
FileKinds == { <<<<"a">>, <<"t1">>>>, <<<<"b">>, <<"t2">>>> }
FileLists(n) ==
    { [i \in 1..n |-> load_file(i, k[i][1], k[i][2])] :
          k \in [1..n -> FileKinds] }

\* The elements of a set of numbers in increasing order.
SortedSeq(S) ==
    IF S = {} THEN <<>>
    ELSE LET m == CHOOSE x \in S : \A y \in S : x <= y
         IN  <<m>> \o SortedSeq(S \ {m})

DefaultFlags == [force_name |-> FALSE, force_fail_bad |-> FALSE,
                 clear_occurrences |-> FALSE]

(***************************************************************************)
(* determine_destination (moving.py)                                       *)
(***************************************************************************)
\* A variant of the loop that stores the destination and leaves move_failed
\* as the file was loaded.
destination_loop_path_only(file_list, i, schema, categories) ==
    IF i > Len(file_list) THEN [files |-> file_list, raised |-> "none"]
    ELSE LET output == generate_path(file_list[i].tag_array, schema, categories)
         IN  IF output.raised # "none"
             THEN [files |-> file_list, raised |-> output.raised]
             ELSE destination_loop(
                      [file_list EXCEPT ![i].dest_folder = output.path],
                      i + 1, schema, categories)

\* The loop of determine_destination from file i on: the file list it leaves
\* and the exception that ended it.
destination_loop(file_list, i, schema, categories) ==
    IF i > Len(file_list) THEN [files |-> file_list, raised |-> "none"]
    ELSE LET output == generate_path(file_list[i].tag_array, schema, categories)
         IN  IF output.raised # "none"
             THEN [files |-> file_list, raised |-> output.raised]
             ELSE destination_loop(
                      [file_list EXCEPT ![i].dest_folder = output.path,
                                        ![i].move_failed = output.move_failed],
                      i + 1, schema, categories)

determine_destination ==
    /\ pc = "loaded"
    /\ LET out == destination_loop(files, 1, movement_schema, cat_data)
       IN  /\ files' = out.files
           /\ raised' = out.raised
           /\ pc' = IF out.raised = "none" THEN "idle" ELSE "aborted"
    /\ UNCHANGED <<cat_data, movement_schema, renaming_schemas, unnamed_patterns,
                   settings, filesystem, mover,
                   produced_names, batch, return_list, flags, calls,
                   tag_groups, inherit_stack, entered>>

(***************************************************************************)
(* AutotagicalNamer.determine_names (naming.py)                            *)
(***************************************************************************)
\* A variant that keeps the table whatever clear_occurrences says.
clear_produced_kept(names, clear_occurrences) == names

\* Line 461: the table after the clear_occurrences test.
clear_produced(names, clear_occurrences) ==
    IF clear_occurrences THEN <<>> ELSE names

\* The state of a call: the file records, the table, return_list and the
\* exception that ended the call ("none" while it runs).
Naming(file_records, names, returned, exception) ==
    [files |-> file_records, produced_names |-> names,
     return_list |-> returned, raised |-> exception]

\* Line 497: the key of the table.
produced_key(file, iterless_name) == file.dest_folder \o iterless_name

\* A variant that records a new name as seen twice.
first_time_counted_twice(file) ==
    [first_occurrence |-> file.original_path, occurrences |-> 2]

\* Lines 509-512: the entry of a name produced for the first time.
first_time(file) ==
    [first_occurrence |-> file.original_path, occurrences |-> 1]

\* A variant that never finds the first occurrence.
find_first_occurrence_never(returned, first_occurrence) == 0

\* Lines 522-525: the position in return_list of the first file whose
\* original_path is first_occurrence, 0 if there is none.
find_first_occurrence(returned, first_occurrence) ==
    LET found == {k \in 1..Len(returned) :
                     files[returned[k]].original_path = first_occurrence}
    IN  IF found = {} THEN 0
        ELSE CHOOSE k \in found : \A j \in found : k <= j

\* Lines 490-549: file f matched a renaming rule with this format string.
rename_file(f, format_string, st) ==
    LET file == st.files[f]
        stripped == strip_iters(format_string)
        iterless_name == substitute_operators(stripped.value, file)
        produced == produced_key(file, iterless_name.value)
    IN  IF stripped.raised # "none"
        THEN [st EXCEPT !.raised = stripped.raised]
        ELSE IF iterless_name.raised # "none"
        THEN [st EXCEPT !.raised = iterless_name.raised]
        ELSE IF produced \notin DOMAIN st.produced_names
        THEN Naming([st.files EXCEPT ![f].output_name = iterless_name.value,
                                     ![f].rename_failed = FALSE],
                    (produced :> first_time(file)) @@ st.produced_names,
                    Append(st.return_list, f), "none")
        ELSE LET entry == st.produced_names[produced]
                 found == find_first_occurrence(st.return_list,
                                                entry.first_occurrence)
                 rename_first == entry.occurrences = 1 /\ found # 0
                 orig_file == st.return_list[found]
                 orig_name == substitute_operators(
                                  evaluate_iters(format_string, 1),
                                  st.files[orig_file])
                 renamed == IF rename_first
                            THEN [st.files EXCEPT ![orig_file].output_name =
                                                      orig_name.value]
                            ELSE st.files
                 occurrences == entry.occurrences + 1
                 counted == [st.produced_names EXCEPT
                                 ![produced].occurrences = occurrences]
                 iter_name == substitute_operators(
                                  evaluate_iters(format_string, occurrences), file)
             IN  IF rename_first /\ orig_name.raised # "none"
                 THEN [st EXCEPT !.raised = orig_name.raised]
                 ELSE IF iter_name.raised # "none"
                 THEN Naming(renamed, counted, st.return_list, iter_name.raised)
                 ELSE Naming([renamed EXCEPT ![f].output_name = iter_name.value,
                                             ![f].rename_failed = FALSE],
                             counted, Append(st.return_list, f), "none")

\* A variant that counts every candidate without a rule as a failure.
name_file_strict(f, st, force_name, force_fail_bad) ==
    LET file == st.files[f]
        unnamed == check_if_unnamed(file.name \o file.extension)
        format_string == find_format_string(file.tag_array)
    IN  IF force_name \/ unnamed
        THEN IF format_string.raised # "none"
             THEN [st EXCEPT !.raised = format_string.raised]
             ELSE IF format_string.value = <<>>
             THEN Naming([st.files EXCEPT ![f].rename_failed = TRUE],
                         st.produced_names, Append(st.return_list, f), "none")
             ELSE rename_file(f, format_string.value, st)
        ELSE Naming([st.files EXCEPT ![f].rename_failed = FALSE],
                    st.produced_names, Append(st.return_list, f), "none")

\* One iteration of the loop over file_list (lines 464-555).
name_file(f, st, force_name, force_fail_bad) ==
    LET file == st.files[f]
        unnamed == check_if_unnamed(file.name \o file.extension)
        format_string == find_format_string(file.tag_array)
    IN  IF force_name \/ unnamed
        THEN IF format_string.raised # "none"
             THEN [st EXCEPT !.raised = format_string.raised]
             ELSE IF format_string.value = <<>>
             THEN Naming([st.files EXCEPT ![f].rename_failed =
                              ~(~unnamed /\ ~force_fail_bad)],
                         st.produced_names, Append(st.return_list, f), "none")
             ELSE rename_file(f, format_string.value, st)
        ELSE Naming([st.files EXCEPT ![f].rename_failed = FALSE],
                    st.produced_names, Append(st.return_list, f), "none")

\* The loop over file_list from position i on: it ends with the list or
\* with the first exception.
names_loop(file_list, i, st, force_name, force_fail_bad) ==
    IF i > Len(file_list) \/ st.raised # "none" THEN st
    ELSE CHOOSE out \in
             { names_loop(file_list, i + 1, next, force_name, force_fail_bad) :
                   next \in {name_file(file_list[i], st, force_name,
                                       force_fail_bad)} } : TRUE

\* The call determine_names(file_list, tag_groups, force_name,
\* force_fail_bad, clear_occurrences): an exception goes to the caller, with
\* what the loop changed before it; SystemExit ends the run.  batch, flags
\* and return_list keep the arguments and the result of the last call.
determine_names(file_list, force_name, force_fail_bad, clear_occurrences) ==
    /\ pc = "idle"
    /\ calls < MaxCalls
    /\ calls' = calls + 1
    /\ batch' = file_list
    /\ flags' = [force_name |-> force_name, force_fail_bad |-> force_fail_bad,
                 clear_occurrences |-> clear_occurrences]
    /\ \E out \in { names_loop(file_list, 1,
                          Naming(files,
                                 clear_produced(produced_names, clear_occurrences),
                                 <<>>, "none"),
                          force_name, force_fail_bad) } :
           /\ files' = out.files
           /\ produced_names' = out.produced_names
           /\ return_list' = IF out.raised = "none" THEN out.return_list ELSE <<>>
           /\ raised' = out.raised
           /\ pc' = IF out.raised = "SystemExit" THEN "exited" ELSE "idle"
    /\ UNCHANGED <<cat_data, movement_schema, renaming_schemas, unnamed_patterns,
                   settings, filesystem, mover,
                   tag_groups, inherit_stack, entered>>

(***************************************************************************)
(* Moving the files (file_handler.py, settings.py).                        *)
(***************************************************************************)
\* The settings that move_files reads, as __interpret_args leaves them when
\* no option is given.
DefaultSettings ==
    [trial_run |-> FALSE, clobber |-> FALSE, answer_yes |-> FALSE,
     copy |-> FALSE, all_match_root |-> FALSE, force_move |-> FALSE,
     output_folders |-> <<>>]

\* What move_files has done: the position of the loop in move_list, the
\* calls that changed the file system, in order, and the files for which a
\* call of move_file_to_folder returned True.
Mover(index, ops, succeeded) ==
    [index |-> index, ops |-> ops, succeeded |-> succeeded]
\* A call that changes the file system, made for file number fi of
\* move_list (0: for none).
Op(op, path, fi) == [op |-> op, path |-> path, file |-> fi]

\* AutotagicalSettings.get_yes_no for what the user types.
get_yes_no(answer, default_to) ==
    IF settings.answer_yes THEN TRUE
    ELSE IF answer = "y" THEN TRUE
    ELSE IF answer = "n" THEN FALSE
    ELSE default_to

\* os.path: a path names a file as it is written and a directory with or
\* without a separator at its end.
strip_slash(path) ==
    IF path # <<>> /\ path[Len(path)] = "/" THEN SubSeq(path, 1, Len(path) - 1)
    ELSE path
isfile(fs, path) == path \in DOMAIN fs /\ fs[path] = "file"
isdir(fs, path) ==
    strip_slash(path) \in DOMAIN fs /\ fs[strip_slash(path)] = "dir"
exists(fs, path) == isfile(fs, path) \/ isdir(fs, path)
\* os.path.normpath for paths without "." and "..": repeated separators
\* become one and a separator at the end goes.
normpath(path) ==
    IF path = <<>> THEN <<>>
    ELSE IF Head(path) = "/" /\ (Len(path) = 1 \/ path[2] = "/")
        THEN normpath(Tail(path))
    ELSE <<Head(path)>> \o normpath(Tail(path))
\* The directories above a path.
Parents(path) ==
    {SubSeq(path, 1, k - 1) : k \in {j \in 2..Len(path) : path[j] = "/"}}
\* os.makedirs, shutil.rmtree, shutil.copy2 and os.remove when they succeed.
makedirs(fs, path) ==
    LET new == (Parents(strip_slash(path)) \cup {strip_slash(path)}) \ DOMAIN fs
    IN  [x \in new |-> "dir"] @@ fs
rmtree(fs, path) ==
    LET inside(x) == /\ Len(x) > Len(path)
                     /\ SubSeq(x, 1, Len(path) + 1) = path \o <<"/">>
    IN  [x \in {y \in DOMAIN fs : y # path /\ ~inside(y)} |-> fs[x]]
copy2(fs, src, dst) == (dst :> "file") @@ fs
os_remove(fs, path) == [x \in DOMAIN fs \ {path} |-> fs[x]]

\* check_output_location from output folder i on: whether the folders are
\* ready, the file system it leaves and the calls it made; answers[i] is
\* what the user types when asked about folder i.
check_output_location(fs, i, answers, ops) ==
    IF i > Len(settings.output_folders) THEN [ok |-> TRUE, fs |-> fs, ops |-> ops]
    ELSE LET out_folder == settings.output_folders[i]
         IN  IF isfile(fs, out_folder)
             THEN IF ~settings.clobber /\ ~get_yes_no(answers[i], FALSE)
                  THEN [ok |-> FALSE, fs |-> fs, ops |-> ops]
                  ELSE check_output_location(
                           os_remove(fs, out_folder), i + 1, answers,
                           Append(ops, Op("remove", out_folder, 0)))
             ELSE check_output_location(fs, i + 1, answers, ops)

\* What a call of move_file_to_folder meets: what the user types when
\* asked, and whether rmtree and copy2 succeed.
Answers == {"y", ""}
Env == [answer : Answers, rmtree_ok : BOOLEAN, copy_ok : BOOLEAN]

\* Result of move_file_to_folder: the value returned, the file system it
\* leaves and the calls it made.
Moved(did_move, fs, ops) == [did_move |-> did_move, fs |-> fs, ops |-> ops]

\* move_file_to_folder for file number fi of move_list.
move_file_to_folder(fs, out_folder, fi, env) ==
    LET file == files[fi]
        out_dir == path_join(out_folder, file.dest_folder)
        full_out_path == path_join(out_dir, file.output_name)
        create == ~exists(fs, out_dir) /\ ~settings.trial_run
        fs1 == IF create THEN makedirs(fs, out_dir) ELSE fs
        ops1 == IF create THEN <<Op("makedirs", out_dir, fi)>> ELSE <<>>
        fs2 == rmtree(fs1, full_out_path)
        ops2 == Append(ops1, Op("rmtree", full_out_path, fi))
        copy(fsc, opsc) ==
            IF ~settings.trial_run
            THEN IF env.copy_ok
                 THEN Moved(TRUE, copy2(fsc, file.original_path, full_out_path),
                            Append(opsc, Op("copy2", full_out_path, fi)))
                 ELSE Moved(FALSE, fsc, opsc)
            ELSE Moved(TRUE, fsc, opsc)
    IN  IF normpath(full_out_path) = normpath(file.original_path)
        THEN Moved(FALSE, fs, <<>>)
        ELSE IF exists(fs1, full_out_path)
        THEN IF isdir(fs1, full_out_path)
             THEN IF (settings.clobber \/ get_yes_no(env.answer, FALSE))
                         /\ ~settings.trial_run
                  THEN IF env.rmtree_ok THEN copy(fs2, ops2)
                       ELSE Moved(FALSE, fs1, ops1)
                  ELSE Moved(FALSE, fs1, ops1)
             ELSE IF ~settings.clobber /\ ~get_yes_no(env.answer, FALSE)
                  THEN Moved(FALSE, fs1, ops1)
                  ELSE copy(fs1, ops1)
        ELSE copy(fs1, ops1)

\* What the loop over the output folders has done: the variable moved, the
\* calls that changed the file system and the values that the calls of
\* move_file_to_folder returned.
Copies(moved, ops, results) == [moved |-> moved, ops |-> ops, results |-> results]

\* A variant of the loop in which moved starts as True.
folders_loop_moved(fs, fi, k, envs, done) ==
    IF k > Len(settings.output_folders)
    THEN [moved |-> TRUE, fs |-> fs, ops |-> done.ops, results |-> done.results]
    ELSE LET out == move_file_to_folder(fs, settings.output_folders[k], fi, envs[k])
         IN  folders_loop(out.fs, fi, k + 1, envs,
                          Copies(TRUE, done.ops \o out.ops,
                                 Append(done.results, out.did_move)))

\* Lines 268-274: the loop over the output folders from folder k on.
folders_loop(fs, fi, k, envs, done) ==
    IF k > Len(settings.output_folders)
    THEN [moved |-> done.moved, fs |-> fs, ops |-> done.ops,
          results |-> done.results]
    ELSE LET out == move_file_to_folder(fs, settings.output_folders[k], fi, envs[k])
         IN  folders_loop(out.fs, fi, k + 1, envs,
                          Copies(IF ~done.moved /\ out.did_move THEN TRUE
                                 ELSE done.moved,
                                 done.ops \o out.ops,
                                 Append(done.results, out.did_move)))

\* The frame of the steps of move_files.
move_frame ==
    UNCHANGED <<cat_data, movement_schema, renaming_schemas, unnamed_patterns,
                settings, files, produced_names, batch, return_list, flags,
                raised, calls, tag_groups, inherit_stack, entered>>

\* move_files, lines 243-246: the output locations are checked; sys.exit if
\* they are not ready.
move_files ==
    /\ pc = "named"
    /\ \E answers \in [1..Len(settings.output_folders) -> Answers] :
           \E out \in {check_output_location(filesystem, 1, answers, <<>>)} :
               /\ filesystem' = out.fs
               /\ mover' = Mover(1, out.ops, {})
               /\ pc' = IF ~out.ok THEN "exited"
                        ELSE IF files = <<>> THEN "moved" ELSE "moving"
    /\ move_frame

\* move_files, lines 249-282: one turn of the loop over move_list.
move_files_loop ==
    /\ pc = "moving"
    /\ LET fi == mover.index
           file == files[fi]
           next == IF fi = Len(files) THEN "moved" ELSE "moving"
       IN  IF \/ ~settings.all_match_root /\ file.move_failed
              \/ ~settings.force_move /\ file.rename_failed
           THEN /\ mover' = [mover EXCEPT !.index = fi + 1]
                /\ pc' = next
                /\ UNCHANGED filesystem
           ELSE \E envs \in [1..Len(settings.output_folders) -> Env] :
                  \E out \in {folders_loop(filesystem, fi, 1, envs,
                                            Copies(FALSE, <<>>, <<>>))} :
                    LET remove == ~settings.copy /\ out.moved
                                      /\ ~settings.trial_run
                    IN  /\ filesystem' =
                               IF remove THEN os_remove(out.fs, file.original_path)
                               ELSE out.fs
                        /\ mover' = Mover(
                               fi + 1,
                               mover.ops \o out.ops \o
                                   (IF remove
                                    THEN <<Op("remove", file.original_path, fi)>>
                                    ELSE <<>>),
                               IF \E k \in 1..Len(out.results) : out.results[k]
                               THEN mover.succeeded \cup {fi}
                               ELSE mover.succeeded)
                        /\ pc' = next
    /\ move_frame

(***************************************************************************)
(* Specifications.                                                         *)
(***************************************************************************)
InitCommon ==
    /\ cat_data = (<<"c1">> :> {"t1"})
    /\ unnamed_patterns = << <<"a">> >>
    /\ produced_names = <<>>
    /\ pc = "loaded"
    /\ batch = <<>>
    /\ return_list = <<>>
    /\ raised = "none"
    /\ calls = 0
    /\ tag_groups = AutotagicalGroups
    /\ inherit_stack = <<>>
    /\ entered = <<>>
    /\ settings = DefaultSettings
    /\ filesystem = <<>>
    /\ mover = Mover(0, <<>>, {})

\* A naming run: the files are placed, then named in one or more batches.
\* force_name and force_fail_bad are settings of the run: every call of the
\* run passes the same values.
Init ==
    /\ InitCommon
    /\ \E c \in Configurations :
           /\ movement_schema = c.movement_schema
           /\ renaming_schemas = c.renaming_schemas
    /\ files \in FileLists(MaxFiles)
    /\ \E force_name \in BOOLEAN, force_fail_bad \in BOOLEAN :
           flags = [force_name |-> force_name, force_fail_bad |-> force_fail_bad,
                    clear_occurrences |-> FALSE]

\* A call on some files of the run, in the order of the file handler.
StartNames ==
    \E S \in (SUBSET (1..Len(files))) \ {{}} : \E clear_occurrences \in BOOLEAN :
        determine_names(SortedSeq(S), flags.force_name, flags.force_fail_bad,
                        clear_occurrences)

Next ==
    \/ determine_destination
    \/ StartNames

Spec == Init /\ [][Next]_vars

\* A placing run: one file is placed by a movement schema.
InitPath ==
    /\ InitCommon
    /\ flags = DefaultFlags
    /\ \E n \in 0..MaxNodes : IsForest(movement_schema, n)
    /\ renaming_schemas = <<Rule(<<"/*|">>, FmtCounter)>>
    /\ \E tag_array \in PathTagArrays : files = <<load_file(1, <<"a">>, tag_array)>>

NextPath == determine_destination

SpecPath == InitPath /\ [][NextPath]_vars

\* A filtering run: one file is placed by a movement schema of one node,
\* whose filter array holds up to two filter strings: the empty string,
\* plain, negated, wildcard and category conditions, conditions joined by the
\* AND separator with and without empty pieces, a lone separator, a lone
\* negation and a lone negation after a condition on a tag.
FilterStrings ==
    { <<>>, <<"t1">>, <<"/*|">>, <<"/!|", "/*|">>, <<"t1", "/&|", "t2">>,
      <<"t1", "/&|">>, <<"/&|", "/!|", "t2", "/&|", "/&|", "/C|", "c1">>,
      <<"/&|">>, <<"/!|", "/C|", "c2">>, <<"/!|">>, <<"t1", "/&|", "/!|">> }
FilterArrays ==
    {<<>>} \cup {<<f>> : f \in FilterStrings}
           \cup {<<f, g>> : f \in FilterStrings, g \in FilterStrings}
FilterTagArrays == {<<>>, <<"t1">>, <<"t2">>, <<"t1", "t2">>}

InitFilter ==
    /\ InitCommon
    /\ flags = DefaultFlags
    /\ \E filter_array \in FilterArrays :
           movement_schema = << [filters |-> filter_array, subfolder |-> <<"A">>,
                                 subfilters |-> <<>>] >>
    /\ renaming_schemas = <<Rule(<<"/*|">>, FmtCounter)>>
    /\ \E tag_array \in FilterTagArrays : files = <<load_file(1, <<"a">>, tag_array)>>

SpecFilter == InitFilter /\ [][NextPath]_vars

\* A template run: every file goes to folder A and one rule matches every
\* file, with a template that has the occurrence operator outside of the
\* iteration spans, a span without the operator, or a span without the
\* operator that holds the name of the file.
FmtSpanName == <<"n", "/ITER|", "/FILE|", "/EITER|">>
Templates == {FmtStray, FmtNoPlaceholder, FmtSpanName}
InitTemplates ==
    /\ InitCommon
    /\ movement_schema = AllToA
    /\ \E format_string \in Templates :
           renaming_schemas = <<Rule(<<"/*|">>, format_string)>>
    /\ files \in FileLists(MaxFiles)
    /\ \E force_name \in BOOLEAN, force_fail_bad \in BOOLEAN :
           flags = [force_name |-> force_name, force_fail_bad |-> force_fail_bad,
                    clear_occurrences |-> FALSE]

SpecTemplates == InitTemplates /\ [][Next]_vars

\* A run with two rules and two destinations: the files with tag t1 go to
\* folder A and get the name n, the others go to the output folder itself
\* and get the name An.
FmtFolderName == <<"A", "n", "/ITER|", "/#|", "/EITER|">>
TaggedToAOthersToRoot ==
    TaggedToA \o
        << [filters |-> << <<"/*|">> >>, subfolder |-> <<>>, subfilters |-> <<>>] >>
InitKeys ==
    /\ InitCommon
    /\ movement_schema = TaggedToAOthersToRoot
    /\ renaming_schemas = <<Rule(<<"t1">>, FmtFixedPlain),
                            Rule(<<"/*|">>, FmtFolderName)>>
    /\ files \in FileLists(MaxFiles)
    /\ \E force_name \in BOOLEAN, force_fail_bad \in BOOLEAN :
           flags = [force_name |-> force_name, force_fail_bad |-> force_fail_bad,
                    clear_occurrences |-> FALSE]

SpecKeys == InitKeys /\ [][Next]_vars

\* A moving run: move_files is called on a list of one or two files that
\* were placed and named.  A file matched no movement schema, or goes to
\* folder A; it could not be renamed, was renamed to n, or keeps its name;
\* the second file failed both or neither.
\* The output folders are o, o and p, or the input folder d1.  Of the
\* output folders nothing exists, or o and p are directories, or o is a
\* file, or the path o/A/n is taken by a file or by a directory.
Placings ==
    { [move_failed |-> TRUE, dest_folder |-> <<>>],
      [move_failed |-> FALSE, dest_folder |-> <<"A">>] }
Namings(file) ==
    { [rename_failed |-> TRUE, output_name |-> file.raw_name],
      [rename_failed |-> FALSE, output_name |-> <<"n">>],
      [rename_failed |-> FALSE, output_name |-> file.raw_name] }
MoveFile(i, placed, named) ==
    [load_file(i, <<"a">>, <<"t1">>) EXCEPT
         !.move_failed = placed.move_failed, !.dest_folder = placed.dest_folder,
         !.rename_failed = named.rename_failed, !.output_name = named.output_name]
MoveFiles(i) ==
    { MoveFile(i, placed, named) :
          placed \in Placings, named \in Namings(load_file(i, <<"a">>, <<"t1">>)) }
MoveLists ==
    { <<file>> : file \in MoveFiles(1) }
        \cup { <<first, second>> :
                   first \in MoveFiles(1),
                   second \in { file \in MoveFiles(2) :
                                    file.move_failed = file.rename_failed } }
OutputFolderLists == { << <<"o">> >>, << <<"o">>, <<"p">> >>, << <<"d", "1">> >> }
InputTree(move_list) ==
    [x \in {<<"d">> \o str(i) : i \in 1..Len(move_list)} |-> "dir"]
        @@ [x \in {move_list[i].original_path : i \in 1..Len(move_list)} |-> "file"]
OutputTrees ==
    { <<>>,
      (<<"o">> :> "dir") @@ (<<"p">> :> "dir"),
      (<<"o">> :> "file") @@ (<<"p">> :> "dir"),
      (<<"o">> :> "dir") @@ (<<"o", "/", "A">> :> "dir")
          @@ (<<"o", "/", "A", "/", "n">> :> "file"),
      (<<"o">> :> "dir") @@ (<<"o", "/", "A">> :> "dir")
          @@ (<<"o", "/", "A", "/", "n">> :> "dir")
          @@ (<<"o", "/", "A", "/", "n", "/", "x">> :> "file") }

InitMove ==
    /\ cat_data = (<<"c1">> :> {"t1"})
    /\ movement_schema = TaggedToA
    /\ renaming_schemas = <<Rule(<<"/*|">>, FmtFixedPlain)>>
    /\ unnamed_patterns = << <<"a">> >>
    /\ produced_names = <<>>
    /\ batch = <<>>
    /\ return_list = <<>>
    /\ flags = DefaultFlags
    /\ raised = "none"
    /\ calls = 0
    /\ tag_groups = AutotagicalGroups
    /\ inherit_stack = <<>>
    /\ entered = <<>>
    /\ pc = "named"
    /\ mover = Mover(0, <<>>, {})
    /\ files \in MoveLists
    /\ \E trial_run \in BOOLEAN, clobber \in BOOLEAN, copy \in BOOLEAN,
          all_match_root \in BOOLEAN, force_move \in BOOLEAN,
          output_folders \in OutputFolderLists :
           settings = [trial_run |-> trial_run, clobber |-> clobber,
                       answer_yes |-> FALSE, copy |-> copy,
                       all_match_root |-> all_match_root,
                       force_move |-> force_move,
                       output_folders |-> output_folders]
    /\ \E tree \in OutputTrees : filesystem = tree @@ InputTree(files)

NextMove ==
    \/ move_files
    \/ move_files_loop

SpecMove == InitMove /\ [][NextMove]_vars

\* The tag groups of a loading run: groups A, B and C, each with its own
\* entries and up to two references to A, B, C or to M, which is never
\* loaded.
GroupNames == {<<"A">>, <<"B">>, <<"C">>}
NotLoaded == <<"M">>
OwnEntries(group) ==
    IF group = <<"A">> THEN {<<"t1">>}
    ELSE IF group = <<"B">> THEN {<<"t2">>, <<"/RE|", "x", ".">>}
    ELSE {<<"t3">>, <<"/RE|", "(">>, <<"/G|">>}
ParentSets == {P \in SUBSET (GroupNames \cup {NotLoaded}) : Cardinality(P) <= 2}

\* AutotagicalCategories.load_autotagical_format: a category holds the tags
\* as written; an entry of several tokens equals no tag, a tag being one
\* token.
category_tags(entries) == {entry[1] : entry \in {e \in entries : Len(e) = 1}}

\* A loading run: the group files are loaded, in the autotagical or in the
\* TagSpaces format, and process_groups is called.  The categories are
\* loaded from the same definitions.
InitGroups ==
    /\ \E parents \in [GroupNames -> ParentSets], autotagical_format \in BOOLEAN :
           LET input == [g \in GroupNames |->
                            OwnEntries(g) \cup {<<"/G|">> \o p : p \in parents[g]}]
           IN  /\ tag_groups = [AutotagicalGroups EXCEPT
                                    !.input_data = input,
                                    !.loaded_autotagical_format = autotagical_format]
               /\ cat_data = [g \in GroupNames |-> category_tags(input[g])]
    /\ inherit_stack = <<>>
    /\ entered = <<>>
    /\ settings = DefaultSettings
    /\ filesystem = <<>>
    /\ mover = Mover(0, <<>>, {})
    /\ pc = "groups_loaded"
    /\ movement_schema = <<>>
    /\ renaming_schemas = <<>>
    /\ unnamed_patterns = <<>>
    /\ files = <<>>
    /\ produced_names = <<>>
    /\ batch = <<>>
    /\ return_list = <<>>
    /\ flags = DefaultFlags
    /\ raised = "none"
    /\ calls = 0

NextGroups ==
    \/ process_groups
    \/ resolve_inheritance
    \/ inherit
    \/ inherit_return
    \/ process_groups_return

SpecGroups == InitGroups /\ [][NextGroups]_vars

\* process_groups is a sequence of statements of one thread: a statement that
\* can run does run.
SpecGroupsFair == SpecGroups /\ WF_vars(NextGroups)

(***************************************************************************)
(* Vocabulary of the properties.                                           *)
(***************************************************************************)
\* Every node of a forest, at every level.
NodesOf(forest) ==
    UNION { {forest[i]} \cup NodesOf(forest[i].subfilters) : i \in 1..Len(forest) }

Least(S) == CHOOSE x \in S : \A y \in S : x <= y

\* determine_destination has placed the files.
Placed == pc = "idle" /\ calls = 0

Matches(t, node) == check_against_filters(t, node.filters, cat_data).value
Out(t, node) == process_filter_level(t, node, cat_data)
\* The siblings that report a full match, and those that report only a
\* non-empty partial contribution.
FullAt(t, nodes) == {i \in 1..Len(nodes) : Out(t, nodes[i]).full}
PartialAt(t, nodes) ==
    {i \in 1..Len(nodes) : ~Out(t, nodes[i]).full /\ Out(t, nodes[i]).path # <<>>}
\* subfolder joined with a contribution, the join omitted for an empty one.
Compose(subfolder, contribution) ==
    IF contribution = <<>> THEN subfolder ELSE path_join(subfolder, contribution)
\* The node's children are consulted: it matches and has a subfolder name
\* and children.
Consulted(t, node) ==
    Matches(t, node) /\ node.subfolder # <<>> /\ node.subfilters # <<>>

C7_NoFullMatchIsPartial ==
    Placed =>
        \A fi \in 1..Len(files) :
            LET t == files[fi].tag_array
            IN  /\ (FullAt(t, movement_schema) = {}
                        /\ PartialAt(t, movement_schema) # {}) =>
                    files[fi].dest_folder =
                        Out(t, movement_schema[Least(PartialAt(t, movement_schema))]).path
                /\ \A node \in NodesOf(movement_schema) :
                       (/\ Matches(t, node)
                        /\ node.subfilters # <<>>
                        /\ FullAt(t, node.subfilters) = {}) =>
                           Out(t, node) = Level(FALSE,
                               IF PartialAt(t, node.subfilters) # {}
                               THEN Compose(node.subfolder,
                                        Out(t, node.subfilters[
                                            Least(PartialAt(t, node.subfilters))]).path)
                               ELSE node.subfolder)

\* C7 as amended: when no sibling reports a full match, the partial
\* contribution used is that of the first sibling with a non-empty partial
\* contribution; a matching node with a subfolder name whose children yield
\* no full match reports a partial match with subfolder joined with that
\* first partial, or the subfolder alone; a matching node without a
\* subfolder name reports a full match with empty contribution.
C7_FirstPartialWins ==
    Placed =>
        \A fi \in 1..Len(files) :
            LET t == files[fi].tag_array
            IN  /\ (FullAt(t, movement_schema) = {}
                        /\ PartialAt(t, movement_schema) # {}) =>
                    /\ files[fi].dest_folder =
                           Out(t, movement_schema[Least(PartialAt(t, movement_schema))]).path
                    /\ ~files[fi].move_failed
                /\ \A node \in NodesOf(movement_schema) :
                       /\ (Consulted(t, node) /\ FullAt(t, node.subfilters) = {}) =>
                              Out(t, node) = Level(FALSE,
                                  IF PartialAt(t, node.subfilters) # {}
                                  THEN path_join(node.subfolder,
                                           Out(t, node.subfilters[
                                               Least(PartialAt(t, node.subfilters))]).path)
                                  ELSE node.subfolder)
                       /\ (Matches(t, node) /\ node.subfolder = <<>>) =>
                              Out(t, node) = Level(TRUE, <<>>)

\* A placed file for which no root matches fully and two roots report
\* different partial contributions: the destination is the first one.
C7_Witness ==
    /\ Placed
    /\ LET t == files[1].tag_array
           partial == PartialAt(t, movement_schema)
       IN  /\ FullAt(t, movement_schema) = {}
           /\ \E j \in partial :
                  Out(t, movement_schema[j]).path
                      # Out(t, movement_schema[Least(partial)]).path
           /\ files[1].dest_folder = Out(t, movement_schema[Least(partial)]).path

C9_ChildrenAlwaysConsulted ==
    Placed =>
        \A fi \in 1..Len(files) : \A node \in NodesOf(movement_schema) :
            LET t == files[fi].tag_array
                full == FullAt(t, node.subfilters)
            IN  (Matches(t, node) /\ node.subfilters # <<>>) =>
                    /\ Out(t, node).full <=> full # {}
                    /\ full # {} =>
                           Out(t, node).path = Compose(node.subfolder,
                               Out(t, node.subfilters[Least(full)]).path)

\* C9 as amended: a matching node with a subfolder name and at least one
\* child reports a full match exactly when some child does, with subfolder
\* joined with the first fully matching child's contribution; a matching node
\* without a subfolder name reports a full match with empty contribution,
\* its children not being consulted.
C9_ChildrenConsultedUnderSubfolder ==
    Placed =>
        \A fi \in 1..Len(files) : \A node \in NodesOf(movement_schema) :
            LET t == files[fi].tag_array
                full == FullAt(t, node.subfilters)
            IN  (Matches(t, node) /\ node.subfilters # <<>>) =>
                    IF node.subfolder = <<>>
                    THEN Out(t, node) = Level(TRUE, <<>>)
                    ELSE /\ Out(t, node).full <=> full # {}
                         /\ full # {} =>
                                Out(t, node).path = Compose(node.subfolder,
                                    Out(t, node.subfilters[Least(full)]).path)

\* A placed file whose first root matches, has no subfolder name and has a
\* child that matches fully with a contribution: the destination is empty.
C9_Witness ==
    /\ Placed
    /\ movement_schema # <<>>
    /\ LET t == files[1].tag_array
           node == movement_schema[1]
       IN  /\ Matches(t, node)
           /\ node.subfolder = <<>>
           /\ \E i \in FullAt(t, node.subfilters) :
                  Out(t, node.subfilters[i]).path # <<>>
           /\ files[1].dest_folder = <<>>
           /\ ~files[1].move_failed

\* The subfolder template resolved for a file as a format string is: the
\* iteration spans stripped, the other operators substituted.
Resolved(subfolder, file) ==
    substitute_operators(iter_sub(subfolder, 1, FALSE), file).value

span_positions(format_string, i) ==
    IF i > Len(format_string) THEN {}
    ELSE IF format_string[i] = "/ITER|" /\ next_eiter(format_string, i) # 0
        THEN ((i + 1)..(next_eiter(format_string, i) - 1))
                 \cup span_positions(format_string,
                                     next_eiter(format_string, i) + 1)
    ELSE span_positions(format_string, i + 1)

\* The template has an iteration span that holds the occurrence placeholder.
HasIterPlaceholder(format_string) ==
    \E k \in span_positions(format_string, 1) : format_string[k] = "/#|"

\* determine_names has returned its list.
Done == pc = "idle" /\ calls > 0 /\ raised = "none"
\* The step is a call of determine_names: batch' and flags' are its
\* arguments.
IsCall == pc = "idle" /\ calls' = calls + 1

FormatOf(fi) == find_format_string(files[fi].tag_array)
\* The name of file fi with the iteration spans of its template removed, and
\* with them expanded for occurrence n.
Iterless(fi) ==
    substitute_operators(strip_iters(FormatOf(fi).value).value, files[fi])
Expanded(fi, format_string, n) ==
    substitute_operators(evaluate_iters(format_string, n), files[fi])
\* Under the flags fl file fi is a candidate for renaming, a rule matches it
\* and its iterless name resolves.
RenamableUnder(fl, fi) ==
    /\ fl.force_name \/ check_if_unnamed(files[fi].name \o files[fi].extension)
    /\ FormatOf(fi).raised = "none"
    /\ FormatOf(fi).value # <<>>
    /\ strip_iters(FormatOf(fi).value).raised = "none"
    /\ Iterless(fi).raised = "none"
Renamable(fi) == RenamableUnder(flags, fi)
Key(fi) == files[fi].dest_folder \o Iterless(fi).value
\* The positions of the batch whose files are renamable by the rule of the
\* file at position p (every rule of a rule list has its own template) to the
\* same destination folder and iterless name.
Group(p) ==
    {q \in 1..Len(batch) :
        /\ Renamable(batch[q])
        /\ FormatOf(batch[q]) = FormatOf(batch[p])
        /\ files[batch[q]].dest_folder = files[batch[p]].dest_folder
        /\ Iterless(batch[q]) = Iterless(batch[p])}
Rank(p) == Cardinality({q \in Group(p) : q <= p})
\* The file at position p carries the name expanded with its rank, which no
\* other file of its group carries.
NumberedInOrder(p) ==
    /\ files[batch[p]].output_name =
           Expanded(batch[p], FormatOf(batch[p]).value, Rank(p)).value
    /\ \A q \in Group(p) \ {p} :
           files[batch[q]].output_name # files[batch[p]].output_name
\* The iteration spans of the template hold only literal text and the
\* occurrence placeholder.
PlainSpans(format_string) ==
    \A k \in span_positions(format_string, 1) :
        format_string[k] = "/#|" \/ format_string[k] \notin OperatorTokens
\* What one token of a template resolves to for file fi.
Piece(fi, token) ==
    replace(replace(replace(<<token>>, "/EXT|", files[fi].extension),
                    "/TAGS|", files[fi].tags), "/FILE|", files[fi].name)
\* Outside of the iteration spans the template resolves, token by token, to
\* the same text for the files at positions p and q.
SameOutside(p, q) ==
    LET format_string == FormatOf(batch[p]).value
    IN  \A k \in (1..Len(format_string)) \ span_positions(format_string, 1) :
            Piece(batch[p], format_string[k]) = Piece(batch[q], format_string[k])
\* The file at position p carries the name expanded with its rank, which no
\* other file of its group carries if the spans are plain and the template
\* resolves alike for the two outside of them.
NumberedInOrderPlain(p) ==
    /\ files[batch[p]].output_name =
           Expanded(batch[p], FormatOf(batch[p]).value, Rank(p)).value
    /\ \A q \in Group(p) \ {p} :
           (PlainSpans(FormatOf(batch[p]).value) /\ SameOutside(p, q)) =>
               files[batch[q]].output_name # files[batch[p]].output_name
Scheduled(fi) == ~files[fi].move_failed /\ ~files[fi].rename_failed

\* C1: after determine_destination and determine_names over a batch, no two
\* distinct files of the batch that are scheduled to move into the same
\* destination folder have the same non-empty output name.
C1_UniqueOutputNames ==
    Done =>
        \A i, j \in Range(batch) :
            (/\ i # j
             /\ Scheduled(i) /\ Scheduled(j)
             /\ files[i].dest_folder = files[j].dest_folder
             /\ files[i].output_name # <<>>) =>
                files[i].output_name # files[j].output_name

C3_FirstOccurrenceRenamed ==
    [][(/\ IsCall
        /\ raised' = "none"
        /\ ~flags'.clear_occurrences
        /\ RenamableUnder(flags', batch'[1])
        /\ Key(batch'[1]) \in DOMAIN produced_names
        /\ produced_names[Key(batch'[1])].occurrences = 1) =>
            \A g \in (1..Len(files)) \ Range(batch') :
                files[g].original_path
                        = produced_names[Key(batch'[1])].first_occurrence =>
                    files'[g].output_name =
                        Expanded(g, FormatOf(batch'[1]).value, 1).value]_vars

\* The table that the loop of the call starts from.
TableAtStart == IF flags'.clear_occurrences THEN <<>> ELSE produced_names
\* The positions of the file list of the call whose files are renamable with
\* the key of file fi.
SameKey(fi) ==
    {q \in 1..Len(batch') :
        RenamableUnder(flags', batch'[q]) /\ Key(batch'[q]) = Key(fi)}

\* C4: a candidate whose key is not recorded gets the iterless name, and the
\* key is recorded with count 1 and the file as first occurrence; the file
\* keeps that name while no later file with the same key is processed: in a
\* call that completes, a renamable file whose key the table does not hold
\* and no other file of the list shares ends with its iterless name and the
\* entry (its path, 1), and a call changes the output name of no file
\* outside its file list.
C4_NewKeyKeepsIterlessName ==
    [][/\ (IsCall /\ raised' = "none") =>
              \A p \in 1..Len(batch') :
                  LET f == batch'[p]
                  IN  (/\ RenamableUnder(flags', f)
                       /\ Key(f) \notin DOMAIN TableAtStart
                       /\ SameKey(f) = {p}) =>
                          /\ files'[f].output_name = Iterless(f).value
                          /\ ~files'[f].rename_failed
                          /\ Key(f) \in DOMAIN produced_names'
                          /\ produced_names'[Key(f)] =
                                 [first_occurrence |-> files[f].original_path,
                                  occurrences |-> 1]
       /\ \A g \in 1..Len(files) :
              files'[g].output_name # files[g].output_name =>
                  IsCall /\ g \in Range(batch')]_vars

\* A file renamed in the first call still holds its new name, and its key
\* the count 1, after a second call on other files that did not clear the
\* table.
C4_Witness ==
    /\ Done
    /\ calls = 2
    /\ ~flags.clear_occurrences
    /\ \E g \in (1..Len(files)) \ Range(batch) : \E k \in DOMAIN produced_names :
           /\ produced_names[k] =
                  [first_occurrence |-> files[g].original_path, occurrences |-> 1]
           /\ k = files[g].dest_folder \o files[g].output_name
           /\ files[g].output_name # files[g].raw_name

\* C5: a call with clear_occurrences set discards every key recorded before
\* it: the table it leaves holds only keys of files of its list, counted
\* within the list, and the single file of a cleared batch, if a rule
\* renames it, gets its iterless name whatever was processed before.
C5_ClearedBatchStartsAfresh ==
    [][(IsCall /\ flags'.clear_occurrences) =>
           /\ \A k \in DOMAIN produced_names' :
                  /\ \E q \in 1..Len(batch') :
                         /\ RenamableUnder(flags', batch'[q])
                         /\ k = Key(batch'[q])
                         /\ produced_names'[k].occurrences
                                <= Cardinality(SameKey(batch'[q]))
                  /\ \E q \in 1..Len(batch') :
                         produced_names'[k].first_occurrence
                             = files[batch'[q]].original_path
           /\ (Len(batch') = 1 /\ RenamableUnder(flags', batch'[1])) =>
                  /\ files'[batch'[1]].output_name = Iterless(batch'[1]).value
                  /\ ~files'[batch'[1]].rename_failed
                  /\ raised' = "none"]_vars

\* The single file of a cleared second batch, processed in the first batch
\* too, holds the iterless name of a template that counts occurrences.
C5_Witness ==
    /\ Done
    /\ calls = 2
    /\ flags.clear_occurrences
    /\ Len(batch) = 1
    /\ Renamable(batch[1])
    /\ HasIterPlaceholder(FormatOf(batch[1]).value)
    /\ files[batch[1]].output_name = Iterless(batch[1]).value
    /\ files[batch[1]].output_name # files[batch[1]].raw_name
    /\ produced_names = (Key(batch[1]) :>
           [first_occurrence |-> files[batch[1]].original_path, occurrences |-> 1])

(***************************************************************************)
(* Properties of the group resolver.                                       *)
(***************************************************************************)
Processed == pc = "processed"
GroupTags == {"t1", "t2", "t3", "x1"}
TagArrays == {<<>>} \cup {<<t>> : t \in GroupTags}
                 \cup {<<t, u>> : t \in GroupTags, u \in GroupTags}

\* The parents a loaded group names, and the groups reachable from a set of
\* groups through such references.
ParentsOf(group) ==
    IF tag_groups.loaded_autotagical_format /\ group \in DOMAIN tag_groups.input_data
    THEN own_parents(tag_groups.input_data[group]) ELSE {}
Reach(S) ==
    LET more == S \cup UNION {ParentsOf(g) : g \in S}
    IN  IF more = S THEN S ELSE Reach(more)
\* The tag is a literal member or a full match of a pattern of the group as
\* it was loaded.
OwnMember(tag, group) ==
    /\ group \in DOMAIN tag_groups.input_data
    /\ IF tag_groups.loaded_autotagical_format
       THEN \/ <<tag>> \in own_tags(tag_groups.input_data[group])
            \/ \E pattern \in own_patterns(tag_groups.input_data[group]) :
                   compiles(pattern) /\ fullmatch(pattern, tag)
       ELSE <<tag>> \in tag_groups.input_data[group]
TransitiveMember(tag, group) == \E g \in Reach({group}) : OwnMember(tag, g)

\* C11: after process_groups, for every tag set and every loaded group,
\* whatever the inheritance graph, tag_in_group is non-empty exactly when
\* some tag of the set is a literal member or a regex full match of the
\* group's own entries or of those of a group reachable from it through
\* inheritance references.
C11_TransitiveMembership ==
    Processed =>
        \A group \in DOMAIN tag_groups.input_data : \A tag_array \in TagArrays :
            tag_in_group(tag_array, group) # ""
                <=> \E i \in 1..Len(tag_array) :
                        TransitiveMember(tag_array[i], group)

\* The groups that lie on an inheritance cycle.
OnCycle(group) == group \in Reach(ParentsOf(group))

\* C12: process_groups terminates for every set of group definitions, with
\* a group that inherits from itself and with inheritance cycles of any
\* length; __inherit is entered at most once for a group; a reference to a
\* group that was never loaded creates no group and adds nothing: a group
\* whose references all name it ends with its own tags and patterns.
C12_ProcessGroupsTerminates ==
    /\ <>Processed
    /\ [](\A group \in DOMAIN entered : entered[group] <= 1)
    /\ [](Processed =>
             /\ DOMAIN tag_groups.group_data = DOMAIN tag_groups.input_data
             /\ tag_groups.inheritance = <<>>
             /\ inherit_stack = <<>>
             /\ \A group \in DOMAIN tag_groups.input_data :
                    (tag_groups.loaded_autotagical_format
                         /\ ParentsOf(group) = {NotLoaded}) =>
                        /\ tag_groups.group_data[group] =
                               own_tags(tag_groups.input_data[group])
                        /\ tag_groups.to_compile[group] =
                               own_patterns(tag_groups.input_data[group]))

\* process_groups has ended for three groups on one cycle, one of which
\* inherits from itself too and one from a group that was never loaded.
C12_Witness ==
    /\ Processed
    /\ tag_groups.loaded_autotagical_format
    /\ ParentsOf(<<"A">>) = {<<"A">>, <<"B">>}
    /\ ParentsOf(<<"B">>) = {<<"C">>, NotLoaded}
    /\ ParentsOf(<<"C">>) = {<<"A">>}
    /\ \A group \in GroupNames : group \in DOMAIN entered /\ entered[group] = 1

\* The tag is a literal member of the flattened group or fully matches one of
\* its patterns that compile.
Qualifies(tag, group) ==
    \/ <<tag>> \in tag_groups.group_data[group]
    \/ /\ group \in DOMAIN tag_groups.to_compile
       /\ \E pattern \in tag_groups.to_compile[group] :
              compiles(pattern) /\ fullmatch(pattern, tag)

C14_GroupReferenceUsesResolver ==
    Processed =>
        \A group \in GroupNames \cup {NotLoaded} : \A tag_array \in TagArrays :
            /\ check_condition(tag_array, <<"/C|">> \o group, cat_data)
                   = Value(tag_in_group(tag_array, group) # "")
            /\ check_condition(tag_array, <<"/!|", "/C|">> \o group, cat_data)
                   = Value(tag_in_group(tag_array, group) = "")

(***************************************************************************)
(* Properties of the filter engine.                                        *)
(***************************************************************************)
\* determine_destination has run on the file of a filtering run: it placed
\* the file, found no place for it or was ended by an exception.
Evaluated == pc # "loaded"
TheFilters == movement_schema[1].filters
TheTags == files[1].tag_array
\* The node of the run matched the file.
NodeMatched ==
    pc = "idle" /\ raised = "none" /\ files[1].dest_folder = <<"A">>
        /\ ~files[1].move_failed
NodeDidNotMatch ==
    pc = "idle" /\ raised = "none" /\ files[1].dest_folder = <<>>
        /\ files[1].move_failed
NodeRaised ==
    pc = "aborted" /\ raised = "FilterError" /\ files = <<load_file(1, <<"a">>, TheTags)>>

\* The non-empty pieces of a filter string between AND separators.
Pieces(single_filter) ==
    LET ends == {0, Len(single_filter) + 1}
                    \cup {i \in 1..Len(single_filter) : single_filter[i] = "/&|"}
    IN  {SubSeq(single_filter, a + 1, b - 1) :
             <<a, b>> \in {p \in ends \X ends :
                              /\ p[1] + 1 < p[2]
                              /\ \A i \in ends : ~(p[1] < i /\ i < p[2])}}
\* The grammar of a condition that is not negated: the wildcard, a tag or a
\* group reference.
IsTag(text) == Len(text) = 1 /\ text[1] \notin OperatorTokens
PlainCondition(c) ==
    c = <<"/*|">> \/ IsTag(c) \/ (Len(c) = 2 /\ c[1] = "/C|" /\ IsTag(Tail(c)))
WellFormedCondition(c) ==
    PlainCondition(c) \/ (c # <<>> /\ c[1] = "/!|" /\ PlainCondition(Tail(c)))
WellFormed(filter_array) ==
    /\ filter_array # <<>>
    /\ \A k \in 1..Len(filter_array) :
           /\ Pieces(filter_array[k]) # {}
           /\ \A c \in Pieces(filter_array[k]) : WellFormedCondition(c)
\* What a condition says of a tag set.
HoldsPlain(tag_array, c) ==
    IF c = <<"/*|">> THEN TRUE
    ELSE IF c[1] = "/C|"
        THEN Tail(c) \in DOMAIN cat_data
                 /\ \E i \in 1..Len(tag_array) : tag_array[i] \in cat_data[Tail(c)]
    ELSE \E i \in 1..Len(tag_array) : tag_array[i] = c[1]
Holds(tag_array, c) ==
    IF c[1] = "/!|" THEN ~HoldsPlain(tag_array, Tail(c)) ELSE HoldsPlain(tag_array, c)
SomeFilterHolds(tag_array, filter_array) ==
    \E k \in 1..Len(filter_array) :
        \A c \in Pieces(filter_array[k]) : Holds(tag_array, c)

\* C15: for every tag set and every well-formed filter array,
\* check_against_filters returns true exactly when some filter string of the
\* array has all its conditions, the non-empty pieces between AND separators,
\* true; the empty pieces change nothing.
C15_SomeFilterAllConditions ==
    (Evaluated /\ WellFormed(TheFilters)) =>
        /\ check_against_filters(TheTags, TheFilters, cat_data)
               = Value(SomeFilterHolds(TheTags, TheFilters))
        /\ IF SomeFilterHolds(TheTags, TheFilters) THEN NodeMatched
           ELSE NodeDidNotMatch

\* The file was placed by the second filter string of the array, which has
\* empty pieces; the first one did not match.
C15_Witness ==
    /\ NodeMatched
    /\ Len(TheFilters) = 2
    /\ WellFormed(TheFilters)
    /\ \E c \in Pieces(TheFilters[1]) : ~Holds(TheTags, c)
    /\ Cardinality(Pieces(TheFilters[2])) = 2
    /\ TheFilters[2][1] = "/&|"
    /\ \A c \in Pieces(TheFilters[2]) : Holds(TheTags, c)

\* The conditions that are not negated: the wildcard, tags, a known and an
\* unknown group.
PlainConditions ==
    {<<"/*|">>, <<"t1">>, <<"t2">>, <<"t3">>, <<"/C|", "c1">>, <<"/C|", "c2">>}

\* C16: for every tag set and every well-formed condition that is not
\* negated (wildcard, tag, reference to a known or unknown group),
\* check_condition returns opposite booleans for the condition and for its
\* negation.
C16_NegationFlips ==
    \A c \in PlainConditions :
        LET plain == check_condition(TheTags, c, cat_data)
            negated == check_condition(TheTags, <<"/!|">> \o c, cat_data)
        IN  /\ ~plain.raised /\ ~negated.raised
            /\ plain.value = ~negated.value
            /\ (Evaluated /\ TheFilters = << <<"/!|">> \o c >>) =>
                   IF plain.value THEN NodeDidNotMatch ELSE NodeMatched

\* The file with tag t1 was placed by a filter that is the negated reference
\* to an unknown group; the reference to the known group of t1 is true for
\* it and its negation false.
C16_Witness ==
    /\ NodeMatched
    /\ TheFilters = << <<"/!|", "/C|", "c2">> >>
    /\ TheTags = <<"t1">>
    /\ ~check_condition(TheTags, <<"/C|", "c2">>, cat_data).value
    /\ check_condition(TheTags, <<"/C|", "c1">>, cat_data).value
    /\ ~check_condition(TheTags, <<"/!|", "/C|", "c1">>, cat_data).value

\* C17 as stated: an empty tag array matches a filter that holds only a
\* negated wildcard.
C17_NegatedWildcardMatches ==
    (Evaluated /\ TheTags = <<>> /\ TheFilters = << <<"/!|", "/*|">> >>) =>
        NodeMatched

\* C17 as amended: no tag array, the empty one included, matches a filter
\* that holds only a negated wildcard; the wildcard that is not negated
\* matches every tag array, the empty one included.
C17_NegatedWildcardNeverMatches ==
    /\ (Evaluated /\ TheFilters = << <<"/!|", "/*|">> >>) => NodeDidNotMatch
    /\ (Evaluated /\ TheFilters = << <<"/*|">> >>) => NodeMatched
    /\ check_against_filters(TheTags, << <<"/!|", "/*|">> >>, cat_data) = Value(FALSE)
    /\ check_against_filters(TheTags, << <<"/*|">> >>, cat_data) = Value(TRUE)

\* The file without tags found no place under the negated wildcard.
C17_Witness ==
    /\ NodeDidNotMatch
    /\ TheTags = <<>>
    /\ TheFilters = << <<"/!|", "/*|">> >>

\* C18: for every tag set, an empty filter array raises FilterError, and so
\* does a filter array whose only element is the empty string.
C18_EmptyFilterRaises ==
    /\ check_against_filters(TheTags, <<>>, cat_data) = FilterError
    /\ check_against_filters(TheTags, << <<>> >>, cat_data) = FilterError
    /\ (Evaluated /\ TheFilters \in {<<>>, << <<>> >>}) => NodeRaised

\* The run of a file with a tag was ended by the FilterError of a filter
\* array that holds only the empty string.
C18_Witness ==
    /\ NodeRaised
    /\ TheFilters = << <<>> >>
    /\ TheTags = <<"t1">>

(***************************************************************************)
(* Properties of the outcome flags and of the choice of the rule.          *)
(***************************************************************************)
Unnamed(fi) == check_if_unnamed(files[fi].name \o files[fi].extension)
\* The rules whose filter the tags of file fi satisfy.
MatchingRules(fi) ==
    {k \in 1..Len(renaming_schemas) :
        \A c \in Pieces(renaming_schemas[k].filter) :
            Holds(files[fi].tag_array, c)}

\* C19: in a call of determine_names that returns, a file that is neither
\* unnamed nor force-named keeps its output name with rename_failed false; a
\* candidate that no rule matches keeps its output name, with rename_failed
\* false if it is manually named and force_fail_bad is off and true
\* otherwise; a file that a rule matches, and every file whose output name
\* the call sets, has rename_failed false.
C19_RenameFailedOutcome ==
    [][(IsCall /\ raised' = "none") =>
           \A f \in Range(batch') :
               IF ~(flags'.force_name \/ Unnamed(f))
               THEN /\ files'[f].output_name = files[f].output_name
                    /\ ~files'[f].rename_failed
               ELSE IF MatchingRules(f) = {}
               THEN /\ files'[f].output_name = files[f].output_name
                    /\ files'[f].rename_failed
                           = ~(~Unnamed(f) /\ ~flags'.force_fail_bad)
               ELSE ~files'[f].rename_failed]_vars

\* A forced, lenient call has returned two files: the one that is unnamed
\* was renamed by the rule; the other, named by the user, matched no rule
\* and keeps its name, and neither counts as a failure.
C19_Witness ==
    /\ Done
    /\ flags.force_name /\ ~flags.force_fail_bad
    /\ \E f, g \in Range(batch) :
           /\ Unnamed(f) /\ MatchingRules(f) # {}
           /\ files[f].output_name # files[f].raw_name
           /\ ~files[f].rename_failed
           /\ ~Unnamed(g) /\ MatchingRules(g) = {}
           /\ files[g].output_name = files[g].raw_name
           /\ ~files[g].rename_failed

\* The names that a template gives to file fi: without the iteration spans,
\* or with them expanded for an occurrence.
NamedFrom(output_name, fi, format_string) ==
    \/ output_name
           = substitute_operators(iter_sub(format_string, 1, FALSE), files[fi]).value
    \/ \E n \in 1..(MaxFiles * MaxCalls) :
           output_name = Expanded(fi, format_string, n).value

\* A later file of the call is renamed by another rule to the destination
\* and iterless name of the file at position p: as a first duplicate it
\* renames the first occurrence again, with its own template (lines 526-531).
RenamedAgainByOtherRule(p) ==
    \E q \in (p + 1)..Len(batch') :
        /\ RenamableUnder(flags', batch'[q])
        /\ RenamableUnder(flags', batch'[p])
        /\ Key(batch'[q]) = Key(batch'[p])
        /\ FormatOf(batch'[q]) # FormatOf(batch'[p])

Stray(format_string) == "/#|" \in Range(iter_sub(format_string, 1, FALSE))
\* The template has an iteration span and no occurrence operator at all.
SpanWithoutPlaceholder(format_string) ==
    /\ iter_sub(format_string, 1, TRUE) # format_string
    /\ "/#|" \notin Range(format_string)
\* The file at position p of the call is a candidate that a rule matches.
CandidateWithRule(p) ==
    /\ flags'.force_name \/ Unnamed(batch'[p])
    /\ FormatOf(batch'[p]).raised = "none"
    /\ FormatOf(batch'[p]).value # <<>>
\* The name of file fi with the iteration spans of the template kept as
\* they are written.
SpansKept(fi, format_string) ==
    substitute_operators(iter_sub(format_string, 1, TRUE), files[fi])
\* The key of the file at position p is in the table when the loop of the
\* call comes to it: the file is named as a duplicate.
NamedAsDuplicate(p) ==
    /\ RenamableUnder(flags', batch'[p])
    /\ \/ Key(batch'[p]) \in DOMAIN TableAtStart
       \/ \E q \in 1..(p - 1) :
              RenamableUnder(flags', batch'[q]) /\ Key(batch'[q]) = Key(batch'[p])
\* Nothing in the naming of the file at position p can raise: the template
\* has no stray occurrence operator and resolves for the file.
Resolves(p) ==
    LET format_string == FormatOf(batch'[p]).value
    IN  /\ ~Stray(format_string)
        /\ Iterless(batch'[p]).raised = "none"
        /\ SpansKept(batch'[p], format_string).raised = "none"

\* C21 as stated: a template with the occurrence operator outside of every
\* iteration span is fatal for every candidate that matches it and the file
\* gets no name; a template whose span lacks the operator is no error and
\* any two duplicates of a name get the same name.
C21_DuplicatesShareName ==
    [][IsCall =>
           /\ \A p \in 1..Len(batch') :
                  (CandidateWithRule(p) /\ Stray(FormatOf(batch'[p]).value)) =>
                      /\ raised' # "none"
                      /\ files'[batch'[p]].output_name = files[batch'[p]].output_name
           /\ raised' = "none" =>
                  \A p, q \in 1..Len(batch') :
                      ( /\ NamedAsDuplicate(p) /\ NamedAsDuplicate(q)
                        /\ Key(batch'[p]) = Key(batch'[q])
                        /\ FormatOf(batch'[p]) = FormatOf(batch'[q])
                        /\ SpanWithoutPlaceholder(FormatOf(batch'[p]).value) ) =>
                          files'[batch'[p]].output_name = files'[batch'[q]].output_name]_vars

\* C21, amended: a candidate matched by a template with the occurrence
\* operator outside of every iteration span makes the call fail, with
\* SchemaError when it is the first candidate with a rule, and keeps its
\* name, whether or not its name was produced before; a template whose span
\* lacks the operator raises nothing, and every duplicate gets the template
\* with the text of the spans kept, whatever its occurrence number, so that
\* duplicates for which that text is the same get the same name.
C21_StrayPlaceholderFatal ==
    [][IsCall =>
           /\ \A p \in 1..Len(batch') :
                  (CandidateWithRule(p) /\ Stray(FormatOf(batch'[p]).value)) =>
                      /\ raised' # "none"
                      /\ files'[batch'[p]].output_name = files[batch'[p]].output_name
                      /\ (\A q \in 1..(p - 1) : ~CandidateWithRule(q)) =>
                             raised' = "SchemaError"
           /\ (\A p \in 1..Len(batch') : CandidateWithRule(p) => Resolves(p)) =>
                  raised' = "none"
           /\ raised' = "none" =>
                  \A p \in 1..Len(batch') :
                      ( /\ NamedAsDuplicate(p)
                        /\ SpanWithoutPlaceholder(FormatOf(batch'[p]).value) ) =>
                          /\ files'[batch'[p]].output_name
                                 = SpansKept(batch'[p], FormatOf(batch'[p]).value).value
                          /\ \A q \in 1..Len(batch') :
                                 ( /\ NamedAsDuplicate(q)
                                   /\ FormatOf(batch'[q]) = FormatOf(batch'[p])
                                   /\ SpansKept(batch'[q], FormatOf(batch'[q]).value)
                                          = SpansKept(batch'[p], FormatOf(batch'[p]).value) )
                                 => files'[batch'[q]].output_name
                                        = files'[batch'[p]].output_name]_vars

\* A call has returned two files that were both named as duplicates by a
\* template whose span lacks the operator: both carry the template with the
\* span kept, the same name for the two.
C21_Witness ==
    /\ Done
    /\ Len(batch) = 2
    /\ batch[1] # batch[2]
    /\ \A p \in 1..2 :
           /\ Renamable(batch[p])
           /\ SpanWithoutPlaceholder(FormatOf(batch[p]).value)
           /\ produced_names[Key(batch[p])].occurrences >= 3
           /\ files[batch[p]].output_name
                  = SpansKept(batch[p], FormatOf(batch[p]).value).value
    /\ files[batch[1]].output_name = files[batch[2]].output_name

(***************************************************************************)
(* Properties of the placing (moving.py), continued.                       *)
(***************************************************************************)
\* The node has neither a subfolder name nor children.
Bare(node) == node.subfolder = <<>> /\ node.subfilters = <<>>

SamePair(p, q) ==
    /\ files[batch'[p]].dest_folder = files[batch'[q]].dest_folder
    /\ Iterless(batch'[p]).value = Iterless(batch'[q]).value

\* C27: a name is expanded with an occurrence counter, or a first occurrence
\* renamed again, only if another file with the same destination folder and
\* the same iterless name was processed before since the last clear: in a
\* call that starts from an empty table and returns, a renamed file that
\* does not end with its iterless name shares both with another file of the
\* call, and two files of a call that differ in one of the two do not share
\* a key of the table.
C27_KeySharedOnlyBySamePair ==
    [][(IsCall /\ raised' = "none") =>
           \A p \in 1..Len(batch') :
               RenamableUnder(flags', batch'[p]) =>
                   /\ ( /\ TableAtStart = <<>>
                        /\ files'[batch'[p]].output_name # Iterless(batch'[p]).value ) =>
                           \E q \in (1..Len(batch')) \ {p} :
                               RenamableUnder(flags', batch'[q]) /\ SamePair(p, q)
                   /\ \A q \in 1..Len(batch') :
                          ( /\ RenamableUnder(flags', batch'[q])
                            /\ ~SamePair(p, q) ) =>
                              produced_key(files[batch'[p]], Iterless(batch'[p]).value)
                                  # produced_key(files[batch'[q]],
                                                 Iterless(batch'[q]).value)]_vars

\* The file at position p of the call is the first of the call with its key,
\* which the table does not hold when the call starts, and a later file of
\* the call has the same key: that file is the first duplicate.
FirstOfDuplicates(p) ==
    /\ RenamableUnder(flags', batch'[p])
    /\ Key(batch'[p]) \notin DOMAIN TableAtStart
    /\ \A q \in 1..(p - 1) :
           ~(RenamableUnder(flags', batch'[q]) /\ Key(batch'[q]) = Key(batch'[p]))
    /\ \E q \in (p + 1)..Len(batch') :
           RenamableUnder(flags', batch'[q]) /\ Key(batch'[q]) = Key(batch'[p])

\* C28: when a first duplicate makes determine_names rename the first
\* occurrence again, the new name of the first occurrence is the template of
\* the rule that the first occurrence matched, expanded with occurrence 1,
\* whatever rule matched the duplicate.
C28_FirstOccurrenceOwnTemplate ==
    [][(IsCall /\ raised' = "none") =>
           \A p \in 1..Len(batch') :
               FirstOfDuplicates(p) =>
                   files'[batch'[p]].output_name
                       = Expanded(batch'[p], FormatOf(batch'[p]).value, 1).value]_vars

\* The turn of the file at position p of the call raises SchemaError or
\* FilterError before the table is read: no rule can be looked up, or the
\* template or the iterless name cannot be made.
FailsAt(p) ==
    /\ flags'.force_name \/ Unnamed(batch'[p])
    /\ \/ FormatOf(batch'[p]).raised # "none"
       \/ FormatOf(batch'[p]).value # <<>> /\ ~RenamableUnder(flags', batch'[p])
\* The positions of the call whose files were given a name: the renamable
\* files that come before the first turn that raises.
NamedInCall ==
    {p \in 1..Len(batch') :
        /\ RenamableUnder(flags', batch'[p])
        /\ \A q \in 1..p : ~FailsAt(q)}
CountAtStart(key) ==
    IF key \in DOMAIN TableAtStart THEN TableAtStart[key].occurrences ELSE 0

MoveEnded == pc \in {"moved", "exited"}
\* The file systems that a moving run starts from.
InitialTrees == {tree @@ InputTree(files) : tree \in OutputTrees}

\* C23: with trial_run set, move_files changes nothing in the file system,
\* from the check of the output locations to the removal of the originals:
\* no call creates a directory, copies a file or removes a file or a
\* directory, whatever clobber is and whatever the user answers.
C23_TrialRunChangesNothing ==
    settings.trial_run =>
        /\ mover.ops = <<>>
        /\ pc \in {"named", "moving", "moved", "exited"} =>
               filesystem \in InitialTrees

\* The positions of the log of the calls made for file number fi.
OpsOf(fi) == {k \in 1..Len(mover.ops) : mover.ops[k].file = fi}
\* The loop of move_files skips the file.
Skipped(file) ==
    \/ ~settings.all_match_root /\ file.move_failed
    \/ ~settings.force_move /\ file.rename_failed

\* C25: move_files removes the original of a file only after a call of
\* move_file_to_folder for that file returned True, after all the copies of
\* the file, and never when copy is set or in a trial run; for a file that
\* is skipped because of move_failed without all_match_root or of
\* rename_failed without force_move no call is made: it is neither copied
\* nor removed, and an original is gone only if move_files removed it.
C25_OriginalRemovedAfterSuccess ==
    \A fi \in 1..Len(files) :
        /\ \A k \in OpsOf(fi) :
               mover.ops[k].op = "remove" =>
                   /\ mover.ops[k].path = files[fi].original_path
                   /\ fi \in mover.succeeded
                   /\ ~settings.copy
                   /\ ~settings.trial_run
                   /\ \A j \in OpsOf(fi) : j <= k
        /\ Skipped(files[fi]) =>
               OpsOf(fi) = {} /\ fi \notin mover.succeeded
        /\ ~isfile(filesystem, files[fi].original_path) =>
               \E k \in OpsOf(fi) : mover.ops[k].op = "remove"

\* move_files has returned: the first file could not be copied to the first
\* output folder, was copied to the second, and its original was removed;
\* the second file was skipped and is where it was.
C25_Witness ==
    /\ pc = "moved"
    /\ Len(files) = 2
    /\ Len(settings.output_folders) = 2
    /\ 1 \in mover.succeeded
    /\ Cardinality({k \in OpsOf(1) : mover.ops[k].op = "copy2"}) = 1
    /\ \E k \in OpsOf(1) : mover.ops[k].op = "remove"
    /\ ~isfile(filesystem, files[1].original_path)
    /\ isfile(filesystem, <<"p", "/", "A", "/", "n">>)
    /\ ~isfile(filesystem, <<"o", "/", "A", "/", "n">>)
    /\ Skipped(files[2])
    /\ isfile(filesystem, files[2].original_path)

(***************************************************************************)
(* Properties of the filters (filtering.py), continued.                    *)
(***************************************************************************)
\* Some filter string of the array holds a condition that is not a wildcard,
\* a tag or a group reference, negated or not.
HasMalformedCondition(filter_array) ==
    \E k \in 1..Len(filter_array) :
        \E c \in Pieces(filter_array[k]) : ~WellFormedCondition(c)

\* C24: the evaluation of a filter array that holds a malformed condition
\* raises FilterError for every tag set, wherever the condition stands and
\* whatever the other conditions and filter strings evaluate to.
C24_MalformedConditionRaises ==
    (Evaluated /\ HasMalformedCondition(TheFilters)) => NodeRaised

(***************************************************************************)
(* The order of resolution (groups.py).                                    *)
(***************************************************************************)
\* The orders in which a set of group names or the inheritance dict can
\* yield its members.
Orders ==
    {order \in [1..Cardinality(GroupNames \cup {NotLoaded}) ->
                    GroupNames \cup {NotLoaded}] :
        \A i, j \in DOMAIN order : order[i] = order[j] => i = j}

\* C30: the flattened tag set and pattern set of every group after
\* process_groups do not depend on the order in which the groups are picked
\* for resolution or in which the parents of a group are visited: the run,
\* whatever order it took, ends with the group contents of the run that
\* follows any one fixed order.
C30_ResolutionOrderIrrelevant ==
    Processed =>
        \A order \in Orders :
            /\ tag_groups.group_data
                   = process_groups_in_order(
                         [AutotagicalGroups EXCEPT
                              !.input_data = tag_groups.input_data,
                              !.loaded_autotagical_format =
                                  tag_groups.loaded_autotagical_format],
                         order).group_data
            /\ tag_groups.regex_group_data
                   = process_groups_in_order(
                         [AutotagicalGroups EXCEPT
                              !.input_data = tag_groups.input_data,
                              !.loaded_autotagical_format =
                                  tag_groups.loaded_autotagical_format],
                         order).regex_group_data

====
